---- MODULE Spec2Model ----
(***************************************************************************)
(* Tunnel supervisor of the pocketpod server: session bootstrap, the       *)
(* per-container monitor goroutine, the health probe, the progress-based   *)
(* timeout, startup reconciliation and the tunnel state store.             *)
(*                                                                         *)
(* Time is kept per monitor as the number of seconds since m.lastProgress  *)
(* (time.Since(m.lastProgress)); it grows when the monitor's ticker fires  *)
(* and is reset where the code assigns time.Now().                         *)
(***************************************************************************)
EXTENDS Integers, Sequences, FiniteSets, TLC

\* ---------------------------------------------------------------- bounds
MaxWorkers == 2                \* monitor goroutines alive at the same time

\* ------------------------------------------------------- program constants
tunnelProgressTimeout == 120   \* seconds
tunnelPollInterval == 3        \* seconds

tunnelStatusReady == "ready"
tunnelStatusStarting == "starting"
tunnelStatusBlocked == "blocked"
tunnelStatusFailed == "failed"
tunnelAuthRequiredMessage == "Authentication required"

\* ------------------------------------------------------------- universes
Containers == {"c1"}
Workers == 1..MaxWorkers
NoDir == <<>>

\* The session id stamped on the container as label pocketpod.tunnel_session.
SessionOf(c) == <<"session", c>>

\* The label pocketpod.workspace_home that createWorkspace stamps on the
\* container: the home of the image's first non-root user. A path is the
\* sequence of its separators and segments.
WorkspaceHomeOf(c) == <<"/", "home", "/", "codespace">>

\* Host directory createWorkspace bind-mounts as <home>/.vscode
\* (absolute path of ./volumes/<userID>/.vscode).
VolumeHostPath == <<"/", "srv", "/", "volumes", "/", "user", "/", ".vscode">>

\* -------------------------------------------------------- session log lines
\* The latest non-empty line of the session log, by what the two patterns
\* look at: whether the whole line is the auth prompt sentence, whether a
\* "code"/"device code" keyword precedes the code token, and the token.
RawCodes == {"ABCD-EFGH", "abcd-efgh", "WXYZ-1234", "AB12"}

LogLines ==
    [kind : {"prompt"}, code : RawCodes]
        \cup {[kind |-> "codeword", code |-> "ABCD-EFGH"]}
        \cup {[kind |-> "plain", code |-> ""]}

\* strings.ToUpper on the code tokens of the model.
ToUpper(code) == IF code = "abcd-efgh" THEN "ABCD-EFGH" ELSE code

\* [A-Z0-9]{4}(?:-[A-Z0-9]{4})+ under (?i): two or more groups of four.
IsDeviceCodeToken(code) == code \in {"ABCD-EFGH", "abcd-efgh", "WXYZ-1234"}

authPromptLinePattern(line) == line.kind = "prompt"

extractDeviceCode(line) ==
    IF line.kind \in {"prompt", "codeword"} /\ IsDeviceCodeToken(line.code)
    THEN ToUpper(line.code)
    ELSE ""

\* A line of the session log that is empty or blank.
BlankLine == [kind |-> "blank", code |-> ""]

\* A variant that returns the latest auth prompt of the log when it has one.
latestNonEmptyLine_LatestPrompt(lines) ==
    IF \E i \in DOMAIN lines : lines[i].kind = "prompt"
    THEN lines[CHOOSE i \in DOMAIN lines :
                   lines[i].kind = "prompt"
                   /\ \A j \in DOMAIN lines : lines[j].kind = "prompt" => j <= i]
    ELSE IF \E i \in DOMAIN lines : lines[i].kind # "blank"
    THEN lines[CHOOSE i \in DOMAIN lines :
                   lines[i].kind # "blank"
                   /\ \A j \in DOMAIN lines : lines[j].kind # "blank" => j <= i]
    ELSE BlankLine

\* latestNonEmptyLine: the lines from the last to the first, the first one
\* that is not blank after trimming; the empty line when there is none.
RECURSIVE latestNonEmptyLine(_)
latestNonEmptyLine(lines) ==
    IF lines = <<>> THEN BlankLine
    ELSE IF lines[Len(lines)] # BlankLine THEN lines[Len(lines)]
    ELSE latestNonEmptyLine(SubSeq(lines, 1, Len(lines) - 1))

\* ------------------------------------------------------------ tunnel state
TunnelState(status, code, message, debug) ==
    [Status |-> status, Code |-> code, Message |-> message, Debug |-> debug]

\* --------------------------------------------------------------- bootstrap
\* What the container does to the three runtime calls of bootstrapTunnel.
BootstrapEnvs == [hasUser : BOOLEAN, installOk : BOOLEAN, startOk : BOOLEAN]

\* What a failed runPodmanCommand hands back: the combined output of the
\* command and the text of the error.
InstallFailure == [output |-> "sh: 1: curl: not found\n", err |-> "exit status 127"]
StartFailure == [output |-> "", err |-> "exit status 1"]

Blanks == {" ", "\n", "\t"}

\* strings.TrimSpace on a text
RECURSIVE TrimSpaceText(_)
TrimSpaceText(text) ==
    IF text = "" THEN ""
    ELSE IF SubSeq(text, 1, 1) \in Blanks
    THEN TrimSpaceText(SubSeq(text, 2, Len(text)))
    ELSE IF SubSeq(text, Len(text), Len(text)) \in Blanks
    THEN TrimSpaceText(SubSeq(text, 1, Len(text) - 1))
    ELSE text

MaxFailureMessage == 240

buildTunnelFailureMessage(prefix, failure) ==
    LET trimmed == TrimSpaceText(failure.output)
        message == IF trimmed = "" /\ failure.err # ""
                   THEN TrimSpaceText(failure.err) ELSE trimmed
    IN IF message = "" THEN prefix \o "."
       ELSE IF Len(message) > MaxFailureMessage
       THEN prefix \o ": " \o SubSeq(message, 1, MaxFailureMessage) \o "..."
       ELSE prefix \o ": " \o message

\* A variant that goes on to the start command after a failed install.
bootstrapTunnelRun_StartsAfterFailedInstall(containerID, env) ==
    IF ~env.hasUser
    THEN [state |-> TunnelState(tunnelStatusFailed, "",
                                "No non-root user found in container.", "nil"),
          ran |-> <<"resolveUser">>]
    ELSE IF containerID = ""
    THEN [state |-> TunnelState(tunnelStatusFailed, "", "Missing container ID.", "debug"),
          ran |-> <<"resolveUser">>]
    ELSE IF ~env.startOk
    THEN [state |-> TunnelState(tunnelStatusFailed, "",
                                buildTunnelFailureMessage("Failed to start VS Code tunnel",
                                                          StartFailure), "debug"),
          ran |-> <<"resolveUser", "prepareLog", "install", "start">>]
    ELSE [state |-> TunnelState(tunnelStatusStarting, "", "", "debug"),
          ran |-> <<"resolveUser", "prepareLog", "install", "start">>]

\* bootstrapTunnel: the state it returns and the commands it ran in the
\* container, in order.
bootstrapTunnelRun(containerID, env) ==
    IF ~env.hasUser
    THEN [state |-> TunnelState(tunnelStatusFailed, "",
                                "No non-root user found in container.", "nil"),
          ran |-> <<"resolveUser">>]
    ELSE IF containerID = ""
    THEN [state |-> TunnelState(tunnelStatusFailed, "", "Missing container ID.", "debug"),
          ran |-> <<"resolveUser">>]
    ELSE IF ~env.installOk
    THEN [state |-> TunnelState(tunnelStatusFailed, "",
                                buildTunnelFailureMessage("Failed to install VS Code CLI",
                                                          InstallFailure), "debug"),
          ran |-> <<"resolveUser", "prepareLog", "install">>]
    ELSE IF ~env.startOk
    THEN [state |-> TunnelState(tunnelStatusFailed, "",
                                buildTunnelFailureMessage("Failed to start VS Code tunnel",
                                                          StartFailure), "debug"),
          ran |-> <<"resolveUser", "prepareLog", "install", "start">>]
    ELSE [state |-> TunnelState(tunnelStatusStarting, "", "", "debug"),
          ran |-> <<"resolveUser", "prepareLog", "install", "start">>]

bootstrapTunnel(containerID, env) == bootstrapTunnelRun(containerID, env).state

\* The start command ran and launched the tunnel process.
tunnelLaunched(containerID, env) ==
    /\ \E i \in DOMAIN bootstrapTunnelRun(containerID, env).ran :
           bootstrapTunnelRun(containerID, env).ran[i] = "start"
    /\ env.startOk

\* ------------------------------------------------------------ health probe
\* Results of the runtime calls of one probe: the PID check ("alive", "dead"
\* or the error of the exec), the token file on the host, the log read.
LogError == [kind |-> "error", code |-> ""]
LogResults == LogLines \cup {LogError}

\* `phase` is the container's: "tunnel" once the start script has launched
\* the tunnel process in it, "bare" when bootstrap failed before that,
\* "foreign" for a container that was not made by createWorkspace, "removed"
\* after podman rm.
ProbeResults(phase) ==
    IF phase = "removed"
    THEN [pid : {"notfound", "unavailable"}, token : BOOLEAN, log : {LogError}]
    ELSE IF phase \in {"bare", "foreign"}
    THEN [pid : {"dead", "unavailable", "transient"}, token : BOOLEAN,
          log : {[kind |-> "plain", code |-> ""], LogError}]
    ELSE [pid : {"alive", "dead", "unavailable", "transient"},
          token : BOOLEAN, log : LogResults]

hasVSCodeToken(hostVSCodeDir, tokenFile) ==
    IF hostVSCodeDir = NoDir THEN FALSE
    ELSE hostVSCodeDir = VolumeHostPath /\ tokenFile

checkTunnelHealth(hostVSCodeDir, probe) ==
    LET alive == probe.pid = "alive"
        token == hasVSCodeToken(hostVSCodeDir, probe.token)
        auth  == IF probe.log = LogError THEN FALSE
                 ELSE IF authPromptLinePattern(probe.log) THEN TRUE
                 ELSE extractDeviceCode(probe.log) # ""
        code  == IF probe.log = LogError THEN ""
                 ELSE extractDeviceCode(probe.log)
    IN [processAlive |-> alive, tokenPresent |-> token,
        authRequired |-> auth, deviceCode |-> code]

\* A variant for which a live process is a ready tunnel.
evaluateHealth_AliveIsReady(health) ==
    IF ~health.processAlive THEN tunnelStatusFailed ELSE tunnelStatusReady

\* A variant that looks at the auth prompt before the token.
evaluateHealth_AuthBeforeToken(health) ==
    IF ~health.processAlive THEN tunnelStatusFailed
    ELSE IF health.authRequired THEN tunnelStatusBlocked
    ELSE IF health.tokenPresent THEN tunnelStatusReady
    ELSE tunnelStatusStarting

evaluateHealth(health) ==
    IF ~health.processAlive THEN tunnelStatusFailed
    ELSE IF health.tokenPresent THEN tunnelStatusReady
    ELSE IF health.authRequired THEN tunnelStatusBlocked
    ELSE tunnelStatusStarting

buildTunnelStateFromHealth(state, health) ==
    IF health.authRequired /\ health.deviceCode # ""
    THEN TunnelState(state, health.deviceCode, tunnelAuthRequiredMessage, "nil")
    ELSE TunnelState(state, "", "", "nil")

\* strings.Index(workspaceHome, "/") and the prefix before it.
IndexOfSlash(path) ==
    IF \E i \in 1..Len(path) : path[i] = "/"
    THEN CHOOSE i \in 1..Len(path) : path[i] = "/" /\ \A j \in 1..(i-1) : path[j] # "/"
    ELSE 0

deriveHostVSCodeDirFromContainer(home) ==
    IF home = <<>> THEN NoDir
    ELSE IF IndexOfSlash(home) = 0 THEN NoDir
    ELSE IF SubSeq(home, 1, IndexOfSlash(home) - 1) = <<>> THEN NoDir
    ELSE <<".", "/", "volumes", "/">> \o SubSeq(home, 1, IndexOfSlash(home) - 1)
             \o <<"/", ".vscode">>

\* ------------------------------------------------------------------- state
VARIABLES
    podman,       \* the runtime: per container "none", "bare", "tunnel" or "removed"
    store,        \* s.tunnelStateByContainerID
    monitors,     \* s.monitors: containerID -> monitor (worker slot)
    workers,      \* the tunnelMonitor records and their goroutines
    history,      \* per monitor: timeout writes made, seconds since its status last changed
    ctx,          \* the root context of podmanService.start: "live" or "cancelled"
    cache,        \* s.containers: the version of the cached container listing
    clients,      \* the stream subscribers: handler position, s.clients, queue, socket
    poller,       \* the goroutine that refreshes the cache and broadcasts it
    mu,           \* s.mu: the goroutine holding it for writing, those holding it for reading
    threads,      \* per goroutine: the operation of the service it runs and where it is in it
    sessionLog,   \* the lines of the session log file of a container, oldest first
    passwd,       \* the lines of /etc/passwd in a container, in file order
    observed,     \* per monitor: authRequired and tokenPresent of the Health of its previous pass
    reconciler    \* per container: the state reconcileTunnelSessions is about to store

tunnelVars == <<podman, store, monitors, workers, history, ctx>>

hubVars == <<cache, clients, poller>>

lockVars == <<mu, threads>>

fileVars == <<sessionLog, passwd>>

vars ==
    <<podman, store, monitors, workers, history, ctx, cache, clients, poller, mu, threads,
      sessionLog, passwd, observed, reconciler>>

NothingPending ==
    [pending |-> FALSE, state |-> [Status |-> "", Code |-> "", Message |-> "", Debug |-> "nil"]]

NotObserved == [seen |-> FALSE, authRequired |-> FALSE, tokenPresent |-> FALSE]

IdleWorker ==
    [pc |-> "idle", containerID |-> "", sessionID |-> <<>>,
     state |-> "", lastProgress |-> 0, stopCh |-> "open", hostVSCodeDir |-> NoDir]

NoHistory == [timeoutWrites |-> 0, sinceChange |-> 0]

\* Seconds since lastProgress are only compared with tunnelProgressTimeout.
ElapsedCap == tunnelProgressTimeout + tunnelPollInterval

Min(a, b) == IF a < b THEN a ELSE b

Running(w) == workers[w].pc \in {"select", "probing"}

RunningFor(c) == {w \in Workers : Running(w) /\ workers[w].containerID = c}

Registered(regs) == {regs[c] : c \in DOMAIN regs}

\* A slot can hold a new monitor when no goroutine uses it and the registry
\* does not reference it.
FreeSlots(regs) ==
    {w \in Workers : workers[w].pc \in {"idle", "exited"} /\ w \notin Registered(regs)}

FirstFree(regs) == CHOOSE w \in FreeSlots(regs) : \A v \in FreeSlots(regs) : w <= v

\* -------------------------------------------------------------------- store
\* strings.TrimSpace on the strings of the model.
TrimSpace(str) == IF str = " " THEN "" ELSE IF str = " c1 " THEN "c1" ELSE str

\* A variant that does not compare with the stored state.
setTunnelStateChanged_Always(st, containerID, state) ==
    ~(TrimSpace(containerID) = "" \/ TrimSpace(state.Status) = "")

\* The value setTunnelState returns. `current == state` compares the Debug
\* pointers; the model's Debug is the pointer bootstrapTunnel allocated for
\* the container ("debug") or nil.
setTunnelStateChanged(st, containerID, state) ==
    IF TrimSpace(containerID) = "" \/ TrimSpace(state.Status) = "" THEN FALSE
    ELSE ~(TrimSpace(containerID) \in DOMAIN st /\ st[TrimSpace(containerID)] = state)

setTunnelState(st, containerID, state) ==
    IF setTunnelStateChanged(st, containerID, state)
    THEN [k \in DOMAIN st \cup {TrimSpace(containerID)} |->
             IF k = TrimSpace(containerID) THEN state ELSE st[k]]
    ELSE st

\* The characters of the container ids of the model: the id of the
\* container, the same id padded with blanks and in upper case, the long
\* ids of two containers that start with it, and an unrelated id.
Letters(id) ==
    CASE id = "" -> <<>>
      [] id = " " -> <<" ">>
      [] id = "c1" -> <<"c", "1">>
      [] id = " c1 " -> <<" ", "c", "1", " ">>
      [] id = "C1" -> <<"C", "1">>
      [] id = "c1f0" -> <<"c", "1", "f", "0">>
      [] id = "c1f9" -> <<"c", "1", "f", "9">>
      [] id = "c2" -> <<"c", "2">>
      [] id = "d2" -> <<"d", "2">>

\* strings.ToLower and strings.TrimSpace, character by character.
ToLowerLetters(chars) == [i \in DOMAIN chars |-> IF chars[i] = "C" THEN "c" ELSE chars[i]]

RECURSIVE TrimLeft(_)
TrimLeft(chars) ==
    IF chars # <<>> /\ Head(chars) = " " THEN TrimLeft(Tail(chars)) ELSE chars

RECURSIVE TrimRight(_)
TrimRight(chars) ==
    IF chars # <<>> /\ chars[Len(chars)] = " "
    THEN TrimRight(SubSeq(chars, 1, Len(chars) - 1))
    ELSE chars

TrimSpaceLetters(chars) == TrimRight(TrimLeft(chars))

\* strings.HasPrefix(s, prefix)
HasPrefix(chars, prefix) ==
    Len(prefix) <= Len(chars) /\ SubSeq(chars, 1, Len(prefix)) = prefix

\* A variant that takes the argument for the short id only.
isContainerIDMatch_ShortArgument(left, right) ==
    LET l == ToLowerLetters(TrimSpaceLetters(Letters(left)))
        r == ToLowerLetters(TrimSpaceLetters(Letters(right)))
    IN IF l = <<>> \/ r = <<>> THEN FALSE
       ELSE l = r \/ HasPrefix(l, r)

isContainerIDMatch(left, right) ==
    LET l == ToLowerLetters(TrimSpaceLetters(Letters(left)))
        r == ToLowerLetters(TrimSpaceLetters(Letters(right)))
    IN IF l = <<>> \/ r = <<>> THEN FALSE
       ELSE l = r \/ HasPrefix(l, r) \/ HasPrefix(r, l)

clearTunnelState(st, containerID) ==
    IF TrimSpace(containerID) = "" THEN st
    ELSE [k \in {x \in DOMAIN st : ~isContainerIDMatch(x, TrimSpace(containerID))} |-> st[k]]

\* A variant that keeps only the keys equal to a listed id.
pruneTunnelStateMap_EqualOnly(st, listed) ==
    LET knownIDs == {TrimSpace(id) : id \in listed} \ {""}
    IN [k \in {x \in DOMAIN st : x \in knownIDs} |-> st[k]]

\* pruneTunnelStateMap over the ids of the listed containers; the order of
\* the listing has no part in the result.
pruneTunnelStateMap(st, listed) ==
    LET knownIDs == {TrimSpace(id) : id \in listed} \ {""}
    IN [k \in {x \in DOMAIN st : \E knownID \in knownIDs : isContainerIDMatch(x, knownID)}
          |-> st[k]]

\* ------------------------------------------------------------ the exec user
\* A line of /etc/passwd by what selectFirstNonRootUser reads of it: whether
\* it is blank or a comment, how many fields the colons make, the name, the
\* UID field (a number or not) and the home, a path as its separators and
\* segments.
PasswdEntry(name, uid, home) ==
    [kind |-> "entry", fields |-> 7, name |-> name, uid |-> uid, home |-> home]

Number(n) == [numeric |-> TRUE, value |-> n]

NotANumber == [numeric |-> FALSE, value |-> 0]

PasswdLines ==
    {PasswdEntry("root", Number(0), <<"/", "root">>),
     PasswdEntry("daemon", Number(1), <<"/", "usr", "/", "sbin">>),
     PasswdEntry("games", Number(999), <<"/", "home", "/", "games">>),
     PasswdEntry("ubuntu", Number(1000), <<"/", "home", "/", "ubuntu">>),
     PasswdEntry("svc", Number(1001), <<>>),
     PasswdEntry("nobody", Number(65534), <<"/", "nonexistent">>),
     PasswdEntry("odd", NotANumber, <<"/", "home", "/", "odd">>),
     PasswdEntry("", Number(1000), <<"/", "home", "/", "anon">>),
     [PasswdEntry("bob", Number(1000), <<"/", "home", "/", "bob">>) EXCEPT !.fields = 6],
     [PasswdEntry("", Number(0), <<>>) EXCEPT !.kind = "comment", !.fields = 1],
     [PasswdEntry("", Number(0), <<>>) EXCEPT !.kind = "blank", !.fields = 1]}

\* A variant that takes any home.
isRegularUser_AnyHome(uid, home) == uid >= 1000

\* uid >= 1000 && strings.HasPrefix(home, "/home/")
isRegularUser(uid, home) == uid >= 1000 /\ HasPrefix(home, <<"/", "home", "/">>)

NoUser == [name |-> "", home |-> <<>>, ok |-> FALSE]

\* The loop of selectFirstNonRootUser over the lines left, with the
\* fallback found so far, and the return after it.
RECURSIVE selectFrom(_, _)
selectFrom(lines, fallback) ==
    IF lines = <<>>
    THEN IF fallback.name = "" THEN NoUser ELSE [fallback EXCEPT !.ok = TRUE]
    ELSE LET line == Head(lines)
             home == IF line.home = <<>> THEN <<"/", "tmp">> ELSE line.home
         IN IF line.kind \in {"blank", "comment"} THEN selectFrom(Tail(lines), fallback)
            ELSE IF line.fields < 7 THEN selectFrom(Tail(lines), fallback)
            ELSE IF line.name = "" \/ line.name = "root" THEN selectFrom(Tail(lines), fallback)
            ELSE IF ~line.uid.numeric THEN selectFrom(Tail(lines), fallback)
            ELSE IF isRegularUser(line.uid.value, home)
            THEN [name |-> line.name, home |-> home, ok |-> TRUE]
            ELSE selectFrom(Tail(lines),
                            IF fallback.name = ""
                            THEN [name |-> line.name, home |-> home, ok |-> FALSE]
                            ELSE fallback)

selectFirstNonRootUser(passwdContents) == selectFrom(passwdContents, NoUser)

\* ------------------------------------------------------------- enrichment
\* The states findTunnelStateForContainerID can return for an id: the entry
\* under the id itself, else the entry of any key that matches it (the map
\* is ranged over in no fixed order); none when nothing matches.
findTunnelStateForContainerID(containerID, st) ==
    IF containerID = "" THEN {}
    ELSE IF containerID \in DOMAIN st THEN {st[containerID]}
    ELSE {st[k] : k \in {x \in DOMAIN st : isContainerIDMatch(x, containerID)}}

\* strings.ToLower on the statuses of the model.
ToLowerStatus(status) == IF status = "READY" THEN tunnelStatusReady ELSE status

\* invalidTunnelName.ReplaceAllString(name, "-") on the names of the model.
ReplaceInvalid(name) == IF name = "my workspace" THEN "my-workspace" ELSE name

buildTunnelName(workspaceName, containerID) ==
    LET given == IF TrimSpace(workspaceName) # "" THEN TrimSpace(workspaceName)
                 ELSE IF TrimSpace(containerID) # "" THEN TrimSpace(containerID)
                 ELSE "workspace"
    IN IF ReplaceInvalid(given) = "" THEN "workspace" ELSE ReplaceInvalid(given)

\* The labels pocketpod.workspace_home and pocketpod.workspace_dir of a
\* listed container; a container made by something else has none.
NoLabels == [home |-> <<>>, dir |-> ""]

\* The path as its escaped segments; empty without the two labels.
buildWorkspaceOpenPath(labels) ==
    IF labels.home = <<>> \/ labels.dir = "" THEN <<>>
    ELSE SelectSeq(labels.home, LAMBDA part : part # "/") \o <<"workspaces", labels.dir>>

NoURL == <<>>

\* A variant that gives the URL for every status but blocked.
buildTunnelConnectURLForContainer_UnlessBlocked(containerName, labels, tunnelStatus) ==
    IF TrimSpace(ToLowerStatus(tunnelStatus)) = tunnelStatusBlocked THEN NoURL
    ELSE <<"https://vscode.dev/tunnel/", buildTunnelName(containerName, "")>>
             \o buildWorkspaceOpenPath(labels)

buildTunnelConnectURLForContainer(containerName, labels, tunnelStatus) ==
    IF TrimSpace(ToLowerStatus(tunnelStatus)) # tunnelStatusReady THEN NoURL
    ELSE IF buildTunnelName(containerName, "") = "" THEN NoURL
    ELSE <<"https://vscode.dev/tunnel/", buildTunnelName(containerName, "")>>
             \o buildWorkspaceOpenPath(labels)

\* One iteration of the loop of enrichContainersWithTunnelState: the
\* records it can leave for a listed container.
enrichContainersWithTunnelState(container, st) ==
    LET found == findTunnelStateForContainerID(TrimSpace(container.ID), st)
    IN IF found = {}
       THEN {[ID |-> container.ID, Name |-> container.Name, Labels |-> container.Labels,
              TunnelStatus |-> "", TunnelCode |-> "", TunnelMessage |-> "",
              TunnelURL |-> NoURL]}
       ELSE {[ID |-> container.ID, Name |-> container.Name, Labels |-> container.Labels,
              TunnelStatus |-> state.Status, TunnelCode |-> state.Code,
              TunnelMessage |-> state.Message,
              TunnelURL |-> buildTunnelConnectURLForContainer(
                                container.Name, container.Labels, state.Status)] :
                state \in found}

\* --------------------------------------------------------------- monitors
\* Records whose goroutine is gone and that the registry no longer holds
\* are garbage.
Collect(ws, regs) ==
    [w \in Workers |->
        IF ws[w].pc = "exited" /\ w \notin Registered(regs) THEN IdleWorker ELSE ws[w]]

CollectHistory(hs, ws, regs) ==
    [w \in Workers |->
        IF ws[w].pc = "exited" /\ w \notin Registered(regs) THEN NoHistory ELSE hs[w]]

NewMonitor(containerID, sessionID, hostVSCodeDir) ==
    [pc |-> "select", containerID |-> containerID, sessionID |-> sessionID,
     state |-> tunnelStatusStarting, lastProgress |-> 0, stopCh |-> "open",
     hostVSCodeDir |-> hostVSCodeDir]

\* startTunnelMonitor: the new record replaces the registry entry and its
\* goroutine starts; a monitor already registered for the container is
\* neither stopped nor waited for.
startTunnelMonitor(containerID, sessionID, hostVSCodeDir) ==
    LET regs == [k \in DOMAIN monitors \ {containerID} |-> monitors[k]]
        w    == FirstFree(regs)
        regs2 == [k \in DOMAIN monitors \cup {containerID} |->
                     IF k = containerID THEN w ELSE monitors[k]]
        ws   == [workers EXCEPT ![w] = NewMonitor(containerID, sessionID, hostVSCodeDir)]
        hs   == [history EXCEPT ![w] = NoHistory]
    IN /\ FreeSlots(regs) # {}
       /\ monitors' = regs2
       /\ workers' = Collect(ws, regs2)
       /\ history' = CollectHistory(hs, ws, regs2)


\* ------------------------------------------------------- the monitor's loop
TimedOutState == TunnelState(tunnelStatusFailed, "", "Tunnel bootstrap timed out.", "nil")

\* A variant that goes on polling after the timeout write.
tunnelMonitorRun_NoReturnOnTimeout(m, health) ==
    LET newState == evaluateHealth(health)
        changed  == newState # m.state
        elapsed  == IF changed THEN 0 ELSE m.lastProgress
        first    == IF changed THEN <<buildTunnelStateFromHealth(newState, health)>> ELSE <<>>
    IN IF newState = tunnelStatusFailed
       THEN [state |-> newState, lastProgress |-> elapsed, writes |-> first,
             exit |-> TRUE, timedOut |-> FALSE, polls |-> Len(first)]
       ELSE IF elapsed > tunnelProgressTimeout
       THEN [state |-> newState, lastProgress |-> elapsed,
             writes |-> first \o <<TimedOutState>>, exit |-> FALSE, timedOut |-> TRUE,
             polls |-> Len(first) + 1]
       ELSE [state |-> newState, lastProgress |-> elapsed, writes |-> first,
             exit |-> FALSE, timedOut |-> FALSE, polls |-> Len(first)]

\* A variant that never moves lastProgress: the timeout counts from the start.
tunnelMonitorRun_TimeoutFromStart(m, health) ==
    LET newState == evaluateHealth(health)
        changed  == newState # m.state
        elapsed  == m.lastProgress
        first    == IF changed THEN <<buildTunnelStateFromHealth(newState, health)>> ELSE <<>>
    IN IF newState = tunnelStatusFailed
       THEN [state |-> newState, lastProgress |-> elapsed, writes |-> first,
             exit |-> TRUE, timedOut |-> FALSE, polls |-> Len(first)]
       ELSE IF elapsed > tunnelProgressTimeout
       THEN [state |-> newState, lastProgress |-> elapsed,
             writes |-> first \o <<TimedOutState>>, exit |-> TRUE, timedOut |-> TRUE,
             polls |-> Len(first) + 1]
       ELSE [state |-> newState, lastProgress |-> elapsed, writes |-> first,
             exit |-> FALSE, timedOut |-> FALSE, polls |-> Len(first)]

\* One pass through the ticker case of tunnelMonitor.run, after the probe:
\* the monitor's new state and seconds since lastProgress, the states it
\* passes to setTunnelState in order, whether it returns, whether the
\* return is the timeout, and how many times it calls schedulePoll.
tunnelMonitorRun(m, health) ==
    LET newState == evaluateHealth(health)
        changed  == newState # m.state
        elapsed  == IF changed THEN 0 ELSE m.lastProgress
        first    == IF changed THEN <<buildTunnelStateFromHealth(newState, health)>>
                    ELSE <<>>
    IN IF newState = tunnelStatusFailed
       THEN [state |-> newState, lastProgress |-> elapsed, writes |-> first,
             exit |-> TRUE, timedOut |-> FALSE, polls |-> Len(first)]
       ELSE IF elapsed > tunnelProgressTimeout
       THEN [state |-> newState, lastProgress |-> elapsed,
             writes |-> first \o <<TimedOutState>>,
             exit |-> TRUE, timedOut |-> TRUE, polls |-> Len(first) + 1]
       ELSE [state |-> newState, lastProgress |-> elapsed, writes |-> first,
             exit |-> FALSE, timedOut |-> FALSE, polls |-> Len(first)]

RECURSIVE setAll(_, _, _)
setAll(st, containerID, writes) ==
    IF writes = <<>> THEN st
    ELSE setAll(setTunnelState(st, containerID, Head(writes)), containerID, Tail(writes))

\* case <-ticker.C: the ticker delivers `gap` seconds after the previous
\* pass of the loop and the monitor starts its probe. A closed stop channel
\* does not disable this case: select picks among the ready cases.
Tick(w, gap) ==
    /\ workers[w].pc = "select"
    /\ workers' = [workers EXCEPT ![w].pc = "probing",
                       ![w].lastProgress = Min(@ + gap, ElapsedCap)]
    /\ history' = [history EXCEPT ![w].sinceChange = Min(@ + gap, ElapsedCap)]
    /\ UNCHANGED <<podman, store, monitors, ctx, hubVars, lockVars, fileVars, observed, reconciler>>

\* The probe returns `probe` and the rest of the ticker case runs.
ApplyPass(w, probe) ==
    LET m   == workers[w]
        out == tunnelMonitorRun(m, checkTunnelHealth(m.hostVSCodeDir, probe))
        ws  == [workers EXCEPT ![w].pc = IF out.exit THEN "exited" ELSE "select",
                               ![w].state = out.state,
                               ![w].lastProgress = out.lastProgress]
        hs  == [history EXCEPT
                   ![w].timeoutWrites = IF out.timedOut THEN @ + 1 ELSE @,
                   ![w].sinceChange = IF out.state # m.state THEN 0 ELSE @]
    IN /\ m.pc = "probing"
       /\ probe \in ProbeResults(podman[m.containerID])
       /\ store' = setAll(store, m.containerID, out.writes)
       /\ workers' = Collect(ws, monitors)
       /\ history' = CollectHistory(hs, ws, monitors)
       /\ UNCHANGED <<podman, monitors, ctx, hubVars, lockVars, fileVars>>

Apply(w, probe) ==
    /\ ApplyPass(w, probe)
    /\ UNCHANGED <<observed, reconciler>>

\* The same pass, with what it saw of authRequired and tokenPresent kept
\* for the next one to compare with.
ApplyObserved(w, probe) ==
    LET health == checkTunnelHealth(workers[w].hostVSCodeDir, probe)
    IN /\ ApplyPass(w, probe)
       /\ observed' = [observed EXCEPT ![w] =
                           [seen |-> TRUE, authRequired |-> health.authRequired,
                            tokenPresent |-> health.tokenPresent]]
       /\ UNCHANGED reconciler

\* case <-m.stopCh: return
ExitOnStop(w) ==
    /\ workers[w].pc = "select"
    /\ workers[w].stopCh = "closed"
    /\ LET ws == [workers EXCEPT ![w].pc = "exited"]
       IN /\ workers' = Collect(ws, monitors)
          /\ history' = CollectHistory(history, ws, monitors)
    /\ UNCHANGED <<podman, store, monitors, ctx, hubVars, lockVars, fileVars, observed, reconciler>>

\* tunnelMonitor.stop: m.stopOnce lets close(m.stopCh) run once; the
\* channel is closed exactly when the Once is spent.
stop(m) == IF m.stopCh = "open" THEN [m EXCEPT !.stopCh = "closed"] ELSE m

\* A variant that leaves the entry in the registry.
stopTunnelMonitor_KeepsEntry(containerID) ==
    IF containerID \in DOMAIN monitors
    THEN LET w  == monitors[containerID]
             ws == [workers EXCEPT ![w] = stop(@)]
         IN /\ monitors' = monitors
            /\ workers' = Collect(ws, monitors)
            /\ history' = CollectHistory(history, ws, monitors)
    ELSE UNCHANGED <<monitors, workers, history>>

\* stopTunnelMonitor: take the entry out of the registry under the lock,
\* then stop the monitor it held. Only the caller that found the entry
\* holds the monitor, so calls that run at the same time act as calls that
\* run one after the other.
stopTunnelMonitor(containerID) ==
    IF containerID \in DOMAIN monitors
    THEN LET w    == monitors[containerID]
             regs == [k \in DOMAIN monitors \ {containerID} |-> monitors[k]]
             ws   == [workers EXCEPT ![w] = stop(@)]
         IN /\ monitors' = regs
            /\ workers' = Collect(ws, regs)
            /\ history' = CollectHistory(history, ws, regs)
    ELSE UNCHANGED <<monitors, workers, history>>

StopMonitor(c) ==
    /\ stopTunnelMonitor(c)
    /\ UNCHANGED <<podman, store, ctx, hubVars, lockVars, fileVars, observed, reconciler>>

Clear(c) ==
    /\ store' = clearTunnelState(store, c)
    /\ UNCHANGED <<podman, monitors, workers, history, ctx, hubVars, lockVars, fileVars, observed, reconciler>>

\* ------------------------------------------------------ workspace creation
\* A variant that starts the monitor whatever bootstrapTunnel returned.
createStartsMonitor_Always(tunnelState) == tunnelState.Status = tunnelState.Status

\* Whether createWorkspace starts a monitor for the state bootstrapTunnel
\* returned.
createStartsMonitor(tunnelState) == tunnelState.Status = tunnelStatusStarting

\* Calls of schedulePoll by createWorkspace for the state it stores.
createWorkspacePolls(st, c, tunnelState) ==
    IF setTunnelStateChanged(st, c, tunnelState) THEN 1 ELSE 0

\* createWorkspace: the container is created with its labels and started,
\* bootstrapTunnel runs in it, its state is stored and the monitor started.
createWorkspace(c, env) ==
    LET returned    == bootstrapTunnel(c, env)
        tunnelState == IF returned.Status = ""
                       THEN [returned EXCEPT !.Status = tunnelStatusStarting]
                       ELSE returned
    IN /\ podman[c] = "none"
       /\ podman' = [podman EXCEPT ![c] = IF tunnelLaunched(c, env)
                                          THEN "tunnel" ELSE "bare"]
       /\ store' = setTunnelState(store, c, tunnelState)
       /\ IF createStartsMonitor(tunnelState)
          THEN startTunnelMonitor(c, SessionOf(c), VolumeHostPath)
          ELSE UNCHANGED <<monitors, workers, history>>
       /\ UNCHANGED <<ctx, hubVars, lockVars, fileVars, observed, reconciler>>

\* A container that something other than createWorkspace runs on the host:
\* listPodmanContainers lists it, without the labels of a workspace.
podmanRun(c) ==
    /\ podman[c] = "none"
    /\ podman' = [podman EXCEPT ![c] = "foreign"]
    /\ UNCHANGED <<store, monitors, workers, history, ctx, hubVars, lockVars, fileVars, observed, reconciler>>

\* deleteContainer: podman rm -f.
deleteContainer(c) ==
    /\ podman[c] \in {"bare", "tunnel", "foreign"}
    /\ podman' = [podman EXCEPT ![c] = "removed"]
    /\ UNCHANGED <<store, monitors, workers, history, ctx, hubVars, lockVars, fileVars, observed, reconciler>>

\* ---------------------------------------------------------- reconciliation
NotRunningState == TunnelState(tunnelStatusFailed, "", "Tunnel process not running.", "nil")

\* The state reconcileTunnelSessions stores for a container whose tunnel
\* process is alive.
reconcileState(health) ==
    IF health.authRequired
    THEN buildTunnelStateFromHealth(tunnelStatusBlocked, health)
    ELSE buildTunnelStateFromHealth("starting", health)

\* container.Labels[labelTunnelSession] of a listed container: only
\* createWorkspace stamps the label.
SessionLabel(c) == IF podman[c] = "foreign" THEN <<>> ELSE SessionOf(c)

\* A variant that probes every listed container.
reconcileSkips_Never(sessionID, containerID) == sessionID # sessionID

\* The two `continue` of the loop of reconcileTunnelSessions.
reconcileSkips(sessionID, containerID) == sessionID = <<>> \/ containerID = ""

\* Calls of schedulePoll by one iteration of the loop of
\* reconcileTunnelSessions: it has none.
reconcilePolls(health) == 0

\* One iteration of the loop of reconcileTunnelSessions, over a listed
\* container.
reconcileTunnelSessions(c, probe) ==
    LET health == checkTunnelHealth(NoDir, probe)
    IN /\ podman[c] \in {"bare", "tunnel", "foreign"}
       /\ probe \in ProbeResults(podman[c])
       /\ IF reconcileSkips(SessionLabel(c), c)
          THEN UNCHANGED <<store, monitors, workers, history>>
          ELSE IF health.processAlive
          THEN /\ startTunnelMonitor(c, SessionOf(c),
                      deriveHostVSCodeDirFromContainer(WorkspaceHomeOf(c)))
               /\ store' = setTunnelState(store, c, reconcileState(health))
          ELSE /\ store' = setTunnelState(store, c, NotRunningState)
               /\ UNCHANGED <<monitors, workers, history>>
       /\ UNCHANGED <<podman, ctx, hubVars, lockVars, fileVars, observed, reconciler>>

\* ---------------------------------------------------------------- stream hub
\* The container listing is cached as s.containers; each refresh replaces it,
\* so a listing is named by its version: 1 is the listing loaded first, and
\* a message of type "containers" carries the version it was built from.
\* The runtime is reachable (s.errMessage stays empty).
podmanClientBufferSize == 16

MaxRefreshes == 2              \* cache refreshes in one behaviour

Clients == {"A", "B"}

NoClient ==
    [at |-> "none", registered |-> FALSE, snap |-> 0, sendCh |-> <<>>,
     closeCh |-> "open", pump |-> "none", conn |-> <<>>]

IdlePoller == [pc |-> "idle", msg |-> 0, targets |-> {}]

\* The listings 1 .. n in the order they were produced.
Listings(n) == [i \in 1..n |-> i]

\* c.close(): closeOnce.Do(close(c.closeCh)).
close(cl) == IF cl.closeCh = "open" THEN [cl EXCEPT !.closeCh = "closed"] ELSE cl

trySend_KeepsOpen(cl, msg) ==
    IF Len(cl.sendCh) < podmanClientBufferSize
    THEN [cl EXCEPT !.sendCh = Append(@, msg)]
    ELSE cl

\* c.trySend(msg): the send case is ready while the buffer has room; the
\* default case closes the client.
trySend(cl, msg) ==
    IF Len(cl.sendCh) < podmanClientBufferSize
    THEN [cl EXCEPT !.sendCh = Append(@, msg)]
    ELSE close(cl)

\* The stream route, first statement: svc.addClient(conn) starts the write
\* pump and registers the client in s.clients.
addClient(c) ==
    /\ clients[c].at = "none"
    /\ clients' = [clients EXCEPT ![c] =
                       [NoClient EXCEPT !.at = "added", !.registered = TRUE,
                                        !.pump = "running"]]
    /\ UNCHANGED <<cache, poller, tunnelVars, lockVars, fileVars, observed, reconciler>>

\* The stream route, second statement: svc.getCachedContainers() copies the
\* cached listing under s.mu.
getCachedContainers(c) ==
    /\ clients[c].at = "added"
    /\ clients' = [clients EXCEPT ![c].at = "read", ![c].snap = cache]
    /\ UNCHANGED <<cache, poller, tunnelVars, lockVars, fileVars, observed, reconciler>>

\* The stream route, third statement: client.trySend of the listing read,
\* after which the handler sits in its ReadMessage loop.
sendSnapshot(c) ==
    /\ clients[c].at = "read"
    /\ clients' = [clients EXCEPT ![c] =
                       [trySend(clients[c], clients[c].snap) EXCEPT !.at = "streaming"]]
    /\ UNCHANGED <<cache, poller, tunnelVars, lockVars, fileVars, observed, reconciler>>

\* The stream route returns when conn.ReadMessage fails (the peer went away
\* or the write pump closed the socket); the deferred svc.removeClient takes
\* the client out of s.clients and closes it.
removeClient(c) ==
    /\ clients[c].at = "streaming"
    /\ clients' = [clients EXCEPT ![c] =
                       [close(clients[c]) EXCEPT !.at = "removed", !.registered = FALSE]]
    /\ UNCHANGED <<cache, poller, tunnelVars, lockVars, fileVars, observed, reconciler>>

\* c.writePump(), case msg := <-c.sendCh: the message is written to the
\* socket. The case can be taken while closeCh is closed too: select picks
\* among the ready cases.
writePumpSend(c) ==
    /\ clients[c].pump = "running"
    /\ clients[c].sendCh # <<>>
    /\ clients' = [clients EXCEPT ![c].conn = Append(@, Head(clients[c].sendCh)),
                                  ![c].sendCh = Tail(@)]
    /\ UNCHANGED <<cache, poller, tunnelVars, lockVars, fileVars, observed, reconciler>>

\* c.writePump(), case <-c.closeCh: the pump returns and closes the socket.
writePumpClose(c) ==
    /\ clients[c].pump = "running"
    /\ clients[c].closeCh = "closed"
    /\ clients' = [clients EXCEPT ![c].pump = "exited"]
    /\ UNCHANGED <<cache, poller, tunnelVars, lockVars, fileVars, observed, reconciler>>

\* The poller refreshes the cache with the next listing and builds the
\* message it is about to broadcast.
RefreshAllowed ==
    \/ cache < 1 + MaxRefreshes
    \/ cache >= podmanClientBufferSize /\ cache < podmanClientBufferSize + MaxRefreshes

refresh ==
    /\ poller.pc = "idle"
    /\ RefreshAllowed
    /\ cache' = cache + 1
    /\ poller' = [pc |-> "refreshed", msg |-> cache + 1, targets |-> {}]
    /\ UNCHANGED <<clients, tunnelVars, lockVars, fileVars, observed, reconciler>>

\* s.broadcast(msg), first half: the clients registered now are copied
\* under s.hubMu.
broadcastCopy ==
    /\ poller.pc = "refreshed"
    /\ poller' = [poller EXCEPT !.pc = "sending",
                                !.targets = {c \in Clients : clients[c].registered}]
    /\ UNCHANGED <<cache, clients, tunnelVars, lockVars, fileVars, observed, reconciler>>

\* s.broadcast(msg), second half: one c.trySend(msg) of the loop over the
\* copy; the copy comes from a map, so its order is any order.
broadcastSend(c) ==
    /\ poller.pc = "sending"
    /\ c \in poller.targets
    /\ clients' = [clients EXCEPT ![c] = trySend(clients[c], poller.msg)]
    /\ poller' = [poller EXCEPT !.targets = @ \ {c}]
    /\ UNCHANGED <<cache, tunnelVars, lockVars, fileVars, observed, reconciler>>

\* s.broadcast(msg) returns when the loop is over.
broadcastDone ==
    /\ poller.pc = "sending"
    /\ poller.targets = {}
    /\ poller' = IdlePoller
    /\ UNCHANGED <<cache, clients, tunnelVars, lockVars, fileVars, observed, reconciler>>

\* A server that has just loaded its first listing and has no subscriber.
HubAtStart ==
    /\ cache = 1
    /\ clients = [c \in Clients |-> NoClient]
    /\ poller = IdlePoller

\* The same server after subscriber B joined at the first listing and its
\* socket took nothing since: B's queue holds that listing and one message
\* per refresh, up to its capacity.
HubSaturated ==
    /\ cache = podmanClientBufferSize
    /\ clients = [c \in Clients |->
                      IF c = "B"
                      THEN [NoClient EXCEPT !.at = "streaming", !.registered = TRUE,
                                            !.snap = 1, !.pump = "running",
                                            !.sendCh = Listings(podmanClientBufferSize)]
                      ELSE NoClient]
    /\ poller = IdlePoller

\* ------------------------------------------------------------------ the mutex
\* s.mu guards s.monitors, s.tunnelStateByContainerID and the cached
\* listing. An operation of the service is the sequence of what it does to
\* s.mu and to the container runtime; `to` is where a branch goes.
Threads == {"g1", "g2"}

Ins(k) == [k |-> k, to |-> 0]

Programs ==
    [getCachedContainers |->
        << Ins("RLock"), [k |-> "IfInitialized", to |-> 11], Ins("RUnlock"),
           Ins("Lock"), [k |-> "IfInitialized", to |-> 9],
           Ins("RuntimeCall"), Ins("RuntimeReturn"), Ins("StoreListing"),
           Ins("Unlock"), Ins("Return"),
           Ins("RUnlock"), Ins("Return") >>,
     setTunnelState      |-> << Ins("Lock"), Ins("Unlock"), Ins("Return") >>,
     clearTunnelState    |-> << Ins("Lock"), Ins("Unlock"), Ins("Return") >>,
     startTunnelMonitor  |-> << Ins("Lock"), Ins("Unlock"), Ins("Return") >>,
     stopTunnelMonitor   |-> << Ins("Lock"), Ins("Unlock"), Ins("Return") >>,
     checkTunnelHealth   |-> << Ins("RuntimeCall"), Ins("RuntimeReturn"),
                                Ins("RuntimeCall"), Ins("RuntimeReturn"), Ins("Return") >>]

Operations == DOMAIN Programs

IdleThread == [op |-> "idle", pc |-> 0]

FreeMutex == [writer |-> "", readers |-> {}]

\* s.initialized: the first listing has been stored.
initialized == cache # 0

At(t) ==
    IF threads[t].op = "idle" THEN Ins("idle") ELSE Programs[threads[t].op][threads[t].pc]

Advance(t) == [threads EXCEPT ![t].pc = @ + 1]

Holds(t) == mu.writer = t \/ t \in mu.readers

\* The goroutine has started a container-runtime command (podman exec, ps,
\* inspect through runPodmanCommand) that has not returned yet.
InRuntimeCall(t) == At(t).k = "RuntimeReturn"

\* A goroutine enters an operation of the service.
Call(t, op) ==
    /\ threads[t].op = "idle"
    /\ threads' = [threads EXCEPT ![t] = [op |-> op, pc |-> 1]]
    /\ UNCHANGED <<mu, tunnelVars, hubVars, fileVars, observed, reconciler>>

RLock(t) ==
    /\ At(t).k = "RLock"
    /\ mu.writer = ""
    /\ mu' = [mu EXCEPT !.readers = @ \cup {t}]
    /\ threads' = Advance(t)
    /\ UNCHANGED <<tunnelVars, hubVars, fileVars, observed, reconciler>>

RUnlock(t) ==
    /\ At(t).k = "RUnlock"
    /\ mu' = [mu EXCEPT !.readers = @ \ {t}]
    /\ threads' = Advance(t)
    /\ UNCHANGED <<tunnelVars, hubVars, fileVars, observed, reconciler>>

Lock(t) ==
    /\ At(t).k = "Lock"
    /\ mu = FreeMutex
    /\ mu' = [mu EXCEPT !.writer = t]
    /\ threads' = Advance(t)
    /\ UNCHANGED <<tunnelVars, hubVars, fileVars, observed, reconciler>>

Unlock(t) ==
    /\ At(t).k = "Unlock"
    /\ mu' = [mu EXCEPT !.writer = ""]
    /\ threads' = Advance(t)
    /\ UNCHANGED <<tunnelVars, hubVars, fileVars, observed, reconciler>>

\* if s.initialized { ... }
IfInitialized(t) ==
    /\ At(t).k = "IfInitialized"
    /\ threads' = [threads EXCEPT ![t].pc = IF initialized THEN At(t).to ELSE @ + 1]
    /\ UNCHANGED <<mu, tunnelVars, hubVars, fileVars, observed, reconciler>>

\* runPodmanCommand starts the podman process ...
RuntimeCall(t) ==
    /\ At(t).k = "RuntimeCall"
    /\ threads' = Advance(t)
    /\ UNCHANGED <<mu, tunnelVars, hubVars, fileVars, observed, reconciler>>

\* ... and its output comes back.
RuntimeReturn(t) ==
    /\ At(t).k = "RuntimeReturn"
    /\ threads' = Advance(t)
    /\ UNCHANGED <<mu, tunnelVars, hubVars, fileVars, observed, reconciler>>

\* s.containers = stored; s.initialized = true
StoreListing(t) ==
    /\ At(t).k = "StoreListing"
    /\ cache' = 1
    /\ threads' = Advance(t)
    /\ UNCHANGED <<mu, clients, poller, tunnelVars, fileVars, observed, reconciler>>

Return(t) ==
    /\ At(t).k = "Return"
    /\ threads' = [threads EXCEPT ![t] = IdleThread]
    /\ UNCHANGED <<mu, tunnelVars, hubVars, fileVars, observed, reconciler>>

\* No goroutine is inside an operation and s.mu is free.
LockAtStart ==
    /\ mu = FreeMutex
    /\ threads = [t \in Threads |-> IdleThread]

\* ------------------------------------------------------------ specification
Init ==
    /\ podman = [c \in Containers |-> "none"]
    /\ store = <<>>
    /\ monitors = <<>>
    /\ workers = [w \in Workers |-> IdleWorker]
    /\ history = [w \in Workers |-> NoHistory]
    /\ ctx = "live"
    /\ HubAtStart
    /\ LockAtStart
    /\ sessionLog = <<>>
    /\ passwd = <<>>
    /\ observed = [w \in Workers |-> NotObserved]
    /\ reconciler = [c \in Containers |-> NothingPending]

\* Gaps between two passes of a monitor's loop. The ticker period is
\* tunnelPollInterval; a pass is late by any amount when the probe before it
\* was slow or the goroutine was not scheduled. In Spec every pass is late by
\* more than the timeout, so that a pass either makes progress or times
\* out; SpecTimed lets the ticker fire at its exact period.
StallGap == tunnelProgressTimeout + tunnelPollInterval

AllProbes == ProbeResults("tunnel") \cup ProbeResults("bare") \cup ProbeResults("removed")

Next ==
    \/ \E c \in Containers, env \in BootstrapEnvs : createWorkspace(c, env)
    \/ \E c \in Containers : podmanRun(c)
    \/ \E c \in Containers : deleteContainer(c)
    \/ \E c \in Containers, probe \in AllProbes : reconcileTunnelSessions(c, probe)
    \/ \E w \in Workers : Tick(w, StallGap)
    \/ \E w \in Workers, probe \in AllProbes : Apply(w, probe)
    \/ \E w \in Workers : ExitOnStop(w)
    \/ \E c \in Containers : StopMonitor(c)
    \/ \E c \in Containers : Clear(c)

Spec == Init /\ [][Next]_vars

\* ------------------------------------------------- one monitor, exact ticker
\* The states in which one monitor has just been started for a running
\* container: by createWorkspace after a bootstrap that returned starting,
\* or by reconcileTunnelSessions after a probe that found the process alive.
MonitorStarts ==
    {[state |-> bootstrapTunnel(c, [hasUser |-> TRUE, installOk |-> TRUE, startOk |-> TRUE]),
      containerID |-> c, hostVSCodeDir |-> VolumeHostPath] : c \in Containers}
    \cup
    {[state |-> reconcileState(checkTunnelHealth(NoDir, probe)),
      containerID |-> c,
      hostVSCodeDir |-> deriveHostVSCodeDirFromContainer(WorkspaceHomeOf(c))] :
        c \in Containers, probe \in {p \in ProbeResults("tunnel") : p.pid = "alive"}}

InitTimed ==
    \E start \in MonitorStarts :
        /\ podman = [c \in Containers |-> "tunnel"]
        /\ store = [c \in {start.containerID} |-> start.state]
        /\ monitors = [c \in {start.containerID} |-> 1]
        /\ workers = [w \in Workers |->
                         IF w = 1
                         THEN NewMonitor(start.containerID, SessionOf(start.containerID),
                                         start.hostVSCodeDir)
                         ELSE IdleWorker]
        /\ history = [w \in Workers |-> NoHistory]
        /\ ctx = "live"
        /\ HubAtStart
        /\ LockAtStart
        /\ sessionLog = <<>>
        /\ passwd = <<>>
        /\ observed = [w \in Workers |-> NotObserved]
        /\ reconciler = [c \in Containers |-> NothingPending]

\* runPodmanCommand has no deadline, so a pass of the loop can last for
\* several ticker periods; the ticker drops the ticks that fall inside it
\* and the next pass starts that much later.
SlowPassTicks == 20

TickGaps == {tunnelPollInterval, SlowPassTicks * tunnelPollInterval}

NextTimed ==
    \/ \E w \in Workers, gap \in TickGaps : Tick(w, gap)
    \/ \E w \in Workers, probe \in AllProbes : Apply(w, probe)
    \/ \E w \in Workers : ExitOnStop(w)
    \/ \E c \in Containers : StopMonitor(c)
    \/ \E c \in Containers : Clear(c)
    \/ \E c \in Containers : deleteContainer(c)

SpecTimed == InitTimed /\ [][NextTimed]_vars

\* ------------------------------------------------ scheduling and shutdown
\* app.OnTerminate: cancel() of the context podmanService.start handed to
\* runPoller and runEventListener.
Shutdown ==
    /\ ctx = "live"
    /\ ctx' = "cancelled"
    /\ UNCHANGED <<podman, store, monitors, workers, history, hubVars, lockVars, fileVars, observed, reconciler>>

\* The handlers and the startup reconciliation run while the application
\* does; the monitor goroutines run until they return.
NextFair ==
    \/ /\ ctx = "live"
       /\ \/ \E c \in Containers, env \in BootstrapEnvs : createWorkspace(c, env)
          \/ \E c \in Containers, probe \in AllProbes : reconcileTunnelSessions(c, probe)
          \/ \E c \in Containers : StopMonitor(c)
    \/ Shutdown
    \/ \E w \in Workers : Tick(w, StallGap)
    \/ \E w \in Workers, probe \in AllProbes : Apply(w, probe)
    \/ \E w \in Workers : ExitOnStop(w)

\* A monitor goroutine that can take a step is scheduled: its ticker fires
\* and its probe returns. At a loop head where both the ticker and the
\* closed stop channel are ready, select picks one at random, so a monitor
\* that keeps coming back to such a loop head takes the stop case in the end.
Fairness ==
    \A w \in Workers :
        /\ WF_vars(Tick(w, StallGap))
        /\ WF_vars(\E probe \in AllProbes : Apply(w, probe))
        /\ SF_vars(ExitOnStop(w))

SpecFair == Init /\ [][NextFair]_vars /\ Fairness

\* ------------------------------------------------------- the stream hub alone
InitHub ==
    /\ podman = [c \in Containers |-> "none"]
    /\ store = <<>>
    /\ monitors = <<>>
    /\ workers = [w \in Workers |-> IdleWorker]
    /\ history = [w \in Workers |-> NoHistory]
    /\ ctx = "live"
    /\ (HubAtStart \/ HubSaturated)
    /\ LockAtStart
    /\ sessionLog = <<>>
    /\ passwd = <<>>
    /\ observed = [w \in Workers |-> NotObserved]
    /\ reconciler = [c \in Containers |-> NothingPending]

NextHub ==
    \/ \E c \in Clients : addClient(c)
    \/ \E c \in Clients : getCachedContainers(c)
    \/ \E c \in Clients : sendSnapshot(c)
    \/ \E c \in Clients : removeClient(c)
    \/ \E c \in Clients : writePumpSend(c)
    \/ \E c \in Clients : writePumpClose(c)
    \/ refresh
    \/ broadcastCopy
    \/ \E c \in Clients : broadcastSend(c)
    \/ broadcastDone

SpecHub == InitHub /\ [][NextHub]_vars


\* --------------------------------------------------- the operations and s.mu
\* A server that has not listed its containers yet.
InitLock ==
    /\ podman = [c \in Containers |-> "none"]
    /\ store = <<>>
    /\ monitors = <<>>
    /\ workers = [w \in Workers |-> IdleWorker]
    /\ history = [w \in Workers |-> NoHistory]
    /\ ctx = "live"
    /\ cache = 0
    /\ clients = [c \in Clients |-> NoClient]
    /\ poller = IdlePoller
    /\ LockAtStart
    /\ sessionLog = <<>>
    /\ passwd = <<>>
    /\ observed = [w \in Workers |-> NotObserved]
    /\ reconciler = [c \in Containers |-> NothingPending]

NextLock ==
    \/ \E t \in Threads, op \in Operations : Call(t, op)
    \/ \E t \in Threads : RLock(t)
    \/ \E t \in Threads : RUnlock(t)
    \/ \E t \in Threads : Lock(t)
    \/ \E t \in Threads : Unlock(t)
    \/ \E t \in Threads : IfInitialized(t)
    \/ \E t \in Threads : RuntimeCall(t)
    \/ \E t \in Threads : RuntimeReturn(t)
    \/ \E t \in Threads : StoreListing(t)
    \/ \E t \in Threads : Return(t)

SpecLock == InitLock /\ [][NextLock]_vars

\* ------------------------------------------------------------ the Store alone
\* Ids handed to setTunnelState and clearTunnelState: blank, short, long,
\* padded, in upper case, unrelated.
StoreIDs == {"", " ", "c1", " c1 ", "C1", "c1f0", "c1f9", "d2"}

StoreStates ==
    {TunnelState(tunnelStatusStarting, "", "", "debug"),
     TunnelState(tunnelStatusBlocked, "ABCD-EFGH", tunnelAuthRequiredMessage, "nil"),
     TunnelState(tunnelStatusReady, "", "", "nil"),
     NotRunningState}

Set(id, state) ==
    /\ store' = setTunnelState(store, id, state)
    /\ UNCHANGED <<podman, monitors, workers, history, ctx, hubVars, lockVars, fileVars, observed, reconciler>>

NextStore ==
    \/ \E id \in StoreIDs, state \in StoreStates : Set(id, state)
    \/ \E id \in StoreIDs : Clear(id)

SpecStore == Init /\ [][NextStore]_vars

\* ------------------------------------------------------ the session log alone
MaxLogLines == 3               \* lines the tunnel process writes in one behaviour

\* What the tunnel process writes: the auth prompt with a device code or
\* with a token that is not one, a line with a code keyword, any other
\* line, an empty line.
SessionLines ==
    {[kind |-> "prompt", code |-> "ABCD-EFGH"], [kind |-> "prompt", code |-> "AB12"],
     [kind |-> "codeword", code |-> "ABCD-EFGH"], [kind |-> "plain", code |-> ""],
     BlankLine}

\* The tunnel process appends a line to its session log.
WriteLine(line) ==
    /\ Len(sessionLog) < MaxLogLines
    /\ sessionLog' = Append(sessionLog, line)
    /\ UNCHANGED <<tunnelVars, hubVars, lockVars, passwd, observed, reconciler>>

\* What a probe of the container gets: the PID check, the token file and,
\* of the log that cat printed, its latest non-empty line.
ProbeOf(pid, token, lines) ==
    [pid |-> pid, token |-> token, log |-> latestNonEmptyLine(lines)]

NextLog == \E line \in SessionLines : WriteLine(line)

SpecLog == Init /\ [][NextLog]_vars

\* ------------------------------------------------------------ /etc/passwd alone
MaxPasswdLines == 3            \* lines of /etc/passwd

\* The image's /etc/passwd, line after line.
WritePasswd(line) ==
    /\ Len(passwd) < MaxPasswdLines
    /\ passwd' = Append(passwd, line)
    /\ UNCHANGED <<tunnelVars, hubVars, lockVars, sessionLog, observed, reconciler>>

NextPasswd == \E line \in PasswdLines : WritePasswd(line)

SpecPasswd == Init /\ [][NextPasswd]_vars

\* ==================================================================== claims
HealthOf(w, probe) == checkTunnelHealth(workers[w].hostVSCodeDir, probe)

\* [A-Z0-9]{4}(-[A-Z0-9]{4})+, case-sensitive, on the code tokens of the model.
MatchesDeviceCodePattern(code) == code \in {"ABCD-EFGH", "WXYZ-1234"}

\* C1: for every container, at most one monitor goroutine is running at any
\* time, whatever the interleaving of monitor starts, stops and exits.
C1_AtMostOneMonitor ==
    \A c \in Containers : Cardinality(RunningFor(c)) <= 1

\* C2: a monitor whose stop channel stopTunnelMonitor has closed makes no
\* further change to the store, also when it was inside a pass of its loop
\* when the channel was closed.
C2_NoWriteAfterStop ==
    [][\A w \in Workers, probe \in AllProbes :
          (workers[w].stopCh = "closed" /\ Apply(w, probe)) => store' = store]_vars

\* C3: every store entry whose status is ready has an empty code.
C3_ReadyHasNoCode ==
    \A c \in DOMAIN store :
        store[c].Status = tunnelStatusReady => store[c].Code = ""

\* C4: every store entry whose status is blocked has a code of the device
\* code pattern or the message "Authentication required".
C4_BlockedHasCodeOrMessage ==
    \A c \in DOMAIN store :
        store[c].Status = tunnelStatusBlocked =>
            \/ MatchesDeviceCodePattern(store[c].Code)
            \/ store[c].Message = tunnelAuthRequiredMessage

Exits(w) == workers'[w].pc \in {"exited", "idle"}

C6_TimeoutOnceThenExit ==
    /\ [](\A w \in Workers :
            /\ history[w].timeoutWrites <= 1
            /\ history[w].timeoutWrites = 1 => workers[w].pc = "exited")
    /\ [][\A w \in Workers, probe \in AllProbes :
            (Apply(w, probe)
                /\ evaluateHealth(HealthOf(w, probe)) = workers[w].state
                /\ history[w].sinceChange > tunnelProgressTimeout) =>
              /\ workers[w].containerID \in DOMAIN store'
              /\ store'[workers[w].containerID] = TimedOutState
              /\ Exits(w)
              /\ (w \in Registered(monitors) => history'[w].timeoutWrites = 1)]_vars

\* A registered monitor has timed out: its one timeout write is in the store
\* and its goroutine is gone.
C6_Witness ==
    \E w \in Workers :
        /\ history[w].timeoutWrites = 1
        /\ workers[w].pc = "exited"
        /\ workers[w].containerID \in DOMAIN store
        /\ store[workers[w].containerID] = TimedOutState

\* C7: the timeout counts from the monitor's latest status change (or its
\* start): no timeout write is made at a pass within tunnelProgressTimeout
\* of it. A monitor that has been starting for no more than that goes to
\* ready when the token shows up and stays starting, without a write, while
\* the Health is alive without token or auth prompt.
C7_TimeoutFromLastProgress ==
    [][\A w \in Workers, probe \in AllProbes :
          Apply(w, probe) =>
            LET h == HealthOf(w, probe)
                c == workers[w].containerID
                early == history[w].sinceChange <= tunnelProgressTimeout
            IN /\ early => (c \in DOMAIN store' => store'[c] # TimedOutState \/ store' = store)
               /\ early => history'[w].timeoutWrites = history[w].timeoutWrites
               /\ (early /\ workers[w].state = tunnelStatusStarting
                      /\ h.processAlive /\ h.tokenPresent) =>
                      /\ store'[c].Status = tunnelStatusReady
                      /\ workers'[w].pc = "select"
               /\ (early /\ workers[w].state = tunnelStatusStarting
                      /\ h.processAlive /\ ~h.tokenPresent /\ ~h.authRequired) =>
                      /\ store' = store
                      /\ workers'[w].pc = "select"
                      /\ workers'[w].state = tunnelStatusStarting]_vars

\* A monitor that has been starting for 102 s is inside a pass.
C7_Witness ==
    \E w \in Workers :
        /\ workers[w].pc = "probing"
        /\ workers[w].state = tunnelStatusStarting
        /\ workers[w].hostVSCodeDir = VolumeHostPath
        /\ history[w].sinceChange = 34 * tunnelPollInterval

\* C8: a pass whose runtime call reports that the container does not exist
\* stores failed("Container not found") and ends the monitor.
C8_NotFoundFails ==
    [][\A w \in Workers, probe \in AllProbes :
          (probe.pid = "notfound" /\ Apply(w, probe)) =>
            /\ workers[w].containerID \in DOMAIN store'
            /\ store'[workers[w].containerID] =
                  TunnelState(tunnelStatusFailed, "", "Container not found", "nil")
            /\ Exits(w)]_vars

\* C9: a pass whose runtime call fails with an error that is neither not-found
\* nor unavailable changes neither the store nor the monitor's status, and
\* the monitor goes on (the pass being within the timeout).
C9_TransientKeepsHealth ==
    [][\A w \in Workers, probe \in AllProbes :
          (probe.pid = "transient" /\ Apply(w, probe)
                /\ history[w].sinceChange <= tunnelProgressTimeout) =>
            /\ store' = store
            /\ workers'[w].state = workers[w].state
            /\ workers'[w].pc = "select"]_vars

\* C10: createWorkspace stores the state bootstrapTunnel returned and leaves
\* a monitor registered and running for the container if and only if that
\* state is starting.
C10_MonitorIffStarting ==
    [][\A c \in Containers, env \in BootstrapEnvs :
          createWorkspace(c, env) =>
            LET started == {w \in Workers : workers'[w].pc \in {"select", "probing"}
                                              /\ workers'[w].containerID = c}
            IN /\ store'[c] = bootstrapTunnel(c, env)
               /\ (store'[c].Status = tunnelStatusStarting) <=> (c \in DOMAIN monitors')
               /\ (store'[c].Status = tunnelStatusStarting) <=> (started # {})
               /\ (~env.hasUser) => (store'[c].Status = tunnelStatusFailed /\ started = {})]_vars

\* The container of a failed bootstrap: its failed state is stored and no
\* monitor exists for it.
C10_Witness ==
    \E c \in Containers :
        /\ podman[c] = "bare"
        /\ c \in DOMAIN store
        /\ store[c] = TunnelState(tunnelStatusFailed, "",
                                   "No non-root user found in container.", "nil")
        /\ c \notin DOMAIN monitors
        /\ RunningFor(c) = {}

\* C11: reconcileTunnelSessions stores failed("Tunnel process not running.")
\* for a listed container that carries the session label and whose probe
\* does not find the process alive, and starts no monitor for it; it leaves
\* the store and the monitors alone for a container without the label.
C11_ReconcileNotRunning ==
    [][\A c \in Containers, probe \in AllProbes :
          reconcileTunnelSessions(c, probe) =>
            /\ (podman[c] = "foreign") => UNCHANGED <<store, monitors, workers>>
            /\ (podman[c] # "foreign"
                  /\ ~checkTunnelHealth(NoDir, probe).processAlive) =>
                  /\ c \in DOMAIN store'
                  /\ store'[c] = TunnelState(tunnelStatusFailed, "",
                                             "Tunnel process not running.", "nil")
                  /\ UNCHANGED <<monitors, workers>>]_vars

\* Reconciliation has found the container of a failed bootstrap: the failed
\* state is stored and no monitor exists.
C11_Witness ==
    \E c \in Containers :
        /\ podman[c] = "bare"
        /\ c \in DOMAIN store
        /\ store[c] = TunnelState(tunnelStatusFailed, "", "Tunnel process not running.", "nil")
        /\ DOMAIN monitors = {}
        /\ RunningFor(c) = {}

\* The Health of a workspace container: the token is looked for in the host
\* directory createWorkspace mounted as its .vscode.
ContainerHealth(probe) == checkTunnelHealth(VolumeHostPath, probe)

\* C12: for a labelled container whose process is alive,
\* reconcileTunnelSessions registers a monitor and stores the status the
\* transition table gives for the container's Health: ready with the token,
\* blocked with an auth prompt and no token, starting otherwise.
C12_ReconcileInitialStatus ==
    [][\A c \in Containers, probe \in AllProbes :
          (probe.pid = "alive" /\ podman[c] # "foreign"
                /\ reconcileTunnelSessions(c, probe)) =>
            /\ c \in DOMAIN monitors'
            /\ workers'[monitors'[c]].pc \in {"select", "probing"}
            /\ c \in DOMAIN store'
            /\ store'[c].Status = evaluateHealth(ContainerHealth(probe))]_vars

\* The transition table, by <<processAlive, tokenPresent, authRequired>>.
StatusTable ==
    <<FALSE, FALSE, FALSE>> :> "failed" @@ <<FALSE, FALSE, TRUE>> :> "failed" @@
    <<FALSE, TRUE, FALSE>> :> "failed" @@ <<FALSE, TRUE, TRUE>> :> "failed" @@
    <<TRUE, TRUE, FALSE>> :> "ready" @@ <<TRUE, TRUE, TRUE>> :> "ready" @@
    <<TRUE, FALSE, TRUE>> :> "blocked" @@ <<TRUE, FALSE, FALSE>> :> "starting"

TableStatus(health) ==
    StatusTable[<<health.processAlive, health.tokenPresent, health.authRequired>>]

Healths ==
    [processAlive : BOOLEAN, tokenPresent : BOOLEAN, authRequired : BOOLEAN,
     deviceCode : {"", "ABCD-EFGH"}]

\* C13: the status a monitor derives at a pass is failed without a live
\* process, else ready with the token, else blocked with an auth prompt,
\* else starting, for the 8 combinations of the three booleans of Health; it
\* is the status the monitor holds after the pass and, when it differs from
\* the one held before, the status the pass stores.
C13_TransitionTable ==
    /\ [](\A health \in Healths : evaluateHealth(health) = TableStatus(health))
    /\ [][\A w \in Workers, probe \in AllProbes :
            Apply(w, probe) =>
              LET derived == TableStatus(HealthOf(w, probe))
                  c == workers[w].containerID
              IN /\ workers'[w].pc # "idle" => workers'[w].state = derived
                 /\ (derived # workers[w].state /\ derived # "failed") =>
                        (c \in DOMAIN store'
                           /\ (store'[c].Status = derived \/ store'[c] = TimedOutState))
                 /\ (derived = "failed") =>
                        (c \in DOMAIN store' /\ store'[c].Status = "failed"
                           /\ workers'[w].pc \in {"exited", "idle"})]_vars

\* A monitor has derived ready from a Health with the token and the prompt
\* and holds it at its loop head.
C13_Witness ==
    \E w \in Workers :
        /\ workers[w].pc = "select"
        /\ workers[w].state = "ready"
        /\ workers[w].containerID \in DOMAIN store
        /\ store[workers[w].containerID].Status = "ready"
        /\ store[workers[w].containerID].Code = "ABCD-EFGH"

\* Arguments of setTunnelState: blank, padded and unknown container ids, and
\* states with every status, blank ones included.
SetIDs == {"", " ", "c1", " c1 ", "c2"}

SetStates ==
    {TunnelState(status, code, message, debug) :
        status \in {"", " ", "starting", "blocked", "ready", "failed"},
        code \in {"", "ABCD-EFGH"},
        message \in {"", tunnelAuthRequiredMessage},
        debug \in {"nil", "debug"}}

\* C17: on every store the program reaches, setTunnelState returns true
\* exactly when the id and the status are not blank and the store has no
\* entry for the id or one that differs from the new state; it then puts
\* the new state under the id and changes nothing else, and when it returns
\* false the store is as it was.
C17_SetReturnsChanged ==
    \A id \in SetIDs, state \in SetStates :
        LET key     == IF id \in {"c1", " c1 "} THEN "c1" ELSE IF id = "c2" THEN "c2" ELSE ""
            blank   == key = "" \/ state.Status \in {"", " "}
            differs == key \notin DOMAIN store \/ store[key] # state
            ret     == setTunnelStateChanged(store, id, state)
            after   == setTunnelState(store, id, state)
        IN /\ ret <=> (~blank /\ differs)
           /\ ret => /\ DOMAIN after = DOMAIN store \cup {key}
                      /\ after[key] = state
                      /\ \A k \in DOMAIN store \ {key} : after[k] = store[k]
           /\ ~ret => after = store

\* The store holds a blocked entry with its device code: setting the same
\* state again returns false, setting another returns true.
C17_Witness ==
    /\ "c1" \in DOMAIN store
    /\ store["c1"] = TunnelState("blocked", "ABCD-EFGH", tunnelAuthRequiredMessage, "nil")
    /\ ~setTunnelStateChanged(store, "c1", store["c1"])
    /\ setTunnelStateChanged(store, "c1", TimedOutState)

\* C14: a call of stopTunnelMonitor(c) leaves the registry without an entry
\* for c; it closes the stop channel of the monitor it found there, which
\* was open until then, and touches no other monitor; a call that finds no
\* entry changes nothing. No registered monitor has a closed stop channel,
\* so no call closes a channel a second time.
C14_StopMonitorIdempotent ==
    /\ [](\A c \in DOMAIN monitors : workers[monitors[c]].stopCh = "open")
    /\ [][\A c \in Containers :
            StopMonitor(c) =>
              /\ c \notin DOMAIN monitors'
              /\ c \notin DOMAIN monitors => UNCHANGED vars
              /\ c \in DOMAIN monitors =>
                    /\ workers[monitors[c]].stopCh = "open"
                    /\ workers'[monitors[c]].pc # "idle"
                          => workers'[monitors[c]].stopCh = "closed"
                    /\ \A w \in Workers \ {monitors[c]} : workers'[w] = workers[w]]_vars

\* stopTunnelMonitor has stopped a monitor that is still running; the next
\* call for its container finds no entry.
C14_Witness ==
    \E w \in Workers :
        /\ Running(w)
        /\ workers[w].stopCh = "closed"
        /\ workers[w].containerID \notin DOMAIN monitors

\* C15: once stopTunnelMonitor(c) has taken c out of the registry, every
\* monitor goroutine that was started for c and is still running exits in
\* the end.
C15_StoppedWorkersExit ==
    \A w \in Workers, c \in Containers :
        (Running(w) /\ workers[w].containerID = c /\ c \notin DOMAIN monitors)
            ~> ~Running(w)

\* C16: once the root context is cancelled, every monitor goroutine that is
\* running exits in the end, without a call of stopTunnelMonitor.
C16_ShutdownStopsWorkers ==
    \A w \in Workers :
        (ctx = "cancelled" /\ Running(w) /\ workers[w].stopCh = "open") ~> ~Running(w)

\* The calls of setTunnelState that return true when `writes` are stored
\* one after the other.
RECURSIVE TrueReturns(_, _, _)
TrueReturns(st, containerID, writes) ==
    IF writes = <<>> THEN 0
    ELSE (IF setTunnelStateChanged(st, containerID, Head(writes)) THEN 1 ELSE 0)
         + TrueReturns(setTunnelState(st, containerID, Head(writes)), containerID,
                       Tail(writes))

\* C18: every step that writes the store issues as many notifications
\* (calls of schedulePoll) as it has calls of setTunnelState that returned
\* true: a pass of a monitor, a workspace creation, an iteration of the
\* reconciliation.
C18_NotifyPerChange ==
    [][/\ \A w \in Workers, probe \in AllProbes :
            Apply(w, probe) =>
              LET out == tunnelMonitorRun(workers[w], HealthOf(w, probe))
              IN out.polls = TrueReturns(store, workers[w].containerID, out.writes)
       /\ \A c \in Containers, env \in BootstrapEnvs :
            createWorkspace(c, env) =>
              createWorkspacePolls(store, c, bootstrapTunnel(c, env))
                = TrueReturns(store, c, <<bootstrapTunnel(c, env)>>)
       /\ \A c \in Containers, probe \in AllProbes :
            (podman[c] # "foreign" /\ reconcileTunnelSessions(c, probe)) =>
              LET health == checkTunnelHealth(NoDir, probe)
                  state  == IF health.processAlive THEN reconcileState(health)
                            ELSE NotRunningState
              IN reconcilePolls(health) = TrueReturns(store, c, <<state>>)]_vars

\* The messages the hub accepted for a subscriber, oldest first: those its
\* write pump has written to the socket, then those still queued.
Accepted(c) == clients[c].conn \o clients[c].sendCh

Range(seq) == {seq[i] : i \in DOMAIN seq}

\* The newest listing whose broadcast has already passed subscriber c.
Passed(c) ==
    IF poller.pc = "refreshed" \/ (poller.pc = "sending" /\ c \in poller.targets)
    THEN cache - 1
    ELSE cache

\* C19: a broadcast never blocks on a subscriber: each send of its loop can
\* be taken whatever the state of the subscriber's queue; a subscriber
\* whose queue holds podmanClientBufferSize messages at a send is closed by
\* that send and the message is not queued; and a subscriber that was never
\* closed has been handed, in order, every listing produced after the one
\* it read when it subscribed, up to the newest one broadcast to it.
C19_SlowConsumerIsClosed ==
    /\ [](poller.pc = "sending" => \A c \in poller.targets : ENABLED broadcastSend(c))
    /\ [](\A c \in Clients :
            (clients[c].at \in {"read", "streaming"} /\ clients[c].closeCh = "open")
                => \A v \in (clients[c].snap + 1)..Passed(c) : v \in Range(Accepted(c)))
    /\ [][\A c \in Clients :
             (broadcastSend(c) /\ Len(clients[c].sendCh) = podmanClientBufferSize)
                 => /\ clients'[c].closeCh = "closed"
                    /\ clients'[c].sendCh = clients[c].sendCh
                    /\ \A d \in Clients \ {c} : clients'[d] = clients[d]]_vars

\* B was closed by a send that found its queue full, and A, subscribed
\* meanwhile, has been written the listing of that send and the next one.
C19_Witness ==
    /\ clients["B"].at = "streaming"
    /\ clients["B"].closeCh = "closed"
    /\ Len(clients["B"].sendCh) = podmanClientBufferSize
    /\ clients["A"].at = "streaming"
    /\ clients["A"].closeCh = "open"
    /\ clients["A"].snap = podmanClientBufferSize
    /\ {podmanClientBufferSize + 1, podmanClientBufferSize + 2} \subseteq Range(clients["A"].conn)

NonDecreasing(seq) == \A i, j \in DOMAIN seq : i < j => seq[i] <= seq[j]

\* C20: a subscriber's socket is written the listing that was current when
\* it subscribed first, and no message written later carries an older
\* listing than a message written before it, whatever a broadcast does
\* while the subscription is in progress.
C20_SnapshotsInOrder ==
    \A c \in Clients :
        (clients[c].at = "streaming" /\ clients[c].conn # <<>>)
            => /\ clients[c].conn[1] = clients[c].snap
               /\ NonDecreasing(clients[c].conn)

\* C21: no goroutine holds s.mu, for reading or for writing, while a
\* container-runtime command it started has not returned.
C21_NoRuntimeCallUnderMutex ==
    \A t \in Threads : InRuntimeCall(t) => ~Holds(t)

\* C22: when a deletion completes, no monitor goroutine for the deleted
\* container is running and the Store has no entry for it.
C22_DeleteStopsAndClears ==
    [][\A c \in Containers :
          deleteContainer(c)
              => /\ \A w \in Workers :
                     workers'[w].containerID = c => workers'[w].pc \notin {"select", "probing"}
                 /\ c \notin DOMAIN store']_vars

\* The container id a string stands for: blanks around it and the case of
\* its letters aside.
Canonical(id) ==
    CASE id \in {"", " "} -> <<>>
      [] id \in {"c1", " c1 ", "C1"} -> <<"c", "1">>
      [] id = "c1f0" -> <<"c", "1", "f", "0">>
      [] id = "c1f9" -> <<"c", "1", "f", "9">>
      [] id = "d2" -> <<"d", "2">>

IsShortFor(short, long) ==
    /\ short # <<>>
    /\ Len(short) <= Len(long)
    /\ \A i \in 1..Len(short) : short[i] = long[i]

Matches(key, id) ==
    IsShortFor(Canonical(key), Canonical(id)) \/ IsShortFor(Canonical(id), Canonical(key))

\* C23: on every store, clearTunnelState(id) removes exactly the keys that
\* stand for the same container id as `id`, for a short form of it or for a
\* long form of it; every other key keeps its value; for a blank id the
\* store is as it was.
C23_ClearRemovesMatches ==
    \A id \in StoreIDs :
        LET after == clearTunnelState(store, id)
        IN /\ DOMAIN after = {k \in DOMAIN store : ~Matches(k, id)}
           /\ \A k \in DOMAIN after : after[k] = store[k]
           /\ Canonical(id) = <<>> => after = store

\* The store holds a short id, a long id that starts with it, a second long
\* id and an unrelated id: clearing by the first long id removes it and the
\* short id and leaves the other two.
C23_Witness ==
    /\ DOMAIN store = {"c1", "c1f0", "c1f9", "d2"}
    /\ DOMAIN clearTunnelState(store, "c1f0") = {"c1f9", "d2"}
    /\ DOMAIN clearTunnelState(store, " c1 ") = {"d2"}
    /\ clearTunnelState(store, " ") = store

\* Records of the container listing before enrichment.
ListedContainers ==
    [ID : {"c1", " c1 ", "c1f0", "d2", ""},
     Name : {"", "my-workspace", "my workspace"},
     Labels : {NoLabels, [home |-> WorkspaceHomeOf("c1"), dir |-> "tiny-stats"]}]

\* C24: a record that enrichment leaves with a tunnel URL carries status
\* ready, and ready is the status the Store holds under a key that matches
\* the container's id; a record with status starting, blocked or failed,
\* and the record of a container with no Store entry, have no URL.
C24_URLOnlyWhenReady ==
    \A container \in ListedContainers :
        \A record \in enrichContainersWithTunnelState(container, store) :
            /\ record.TunnelURL # NoURL
                   => /\ record.TunnelStatus = tunnelStatusReady
                      /\ \E k \in DOMAIN store :
                             Matches(k, container.ID) /\ store[k].Status = tunnelStatusReady
            /\ record.TunnelStatus # tunnelStatusReady => record.TunnelURL = NoURL
            /\ (\A k \in DOMAIN store : ~Matches(k, container.ID))
                   => record.TunnelURL = NoURL /\ record.TunnelStatus = ""

\* The Store holds ready for c1 and blocked for d2: the record of c1 gets
\* its URL, the record of d2 gets none.
C24_Witness ==
    /\ "c1" \in DOMAIN store /\ store["c1"].Status = tunnelStatusReady
    /\ "d2" \in DOMAIN store /\ store["d2"].Status = tunnelStatusBlocked
    /\ \A record \in enrichContainersWithTunnelState(
                          [ID |-> "c1", Name |-> "my-workspace", Labels |-> NoLabels], store) :
           record.TunnelURL = <<"https://vscode.dev/tunnel/", "my-workspace">>
    /\ \A record \in enrichContainersWithTunnelState(
                          [ID |-> "d2", Name |-> "my-workspace", Labels |-> NoLabels], store) :
           record.TunnelURL = NoURL /\ record.TunnelCode = "ABCD-EFGH"

\* C25: a store entry with a code has status blocked, and an entry with
\* status failed or starting has neither a code nor the message
\* "Authentication required".
C25_CodeOnlyWhenBlocked ==
    \A c \in DOMAIN store :
        /\ store[c].Code # "" => store[c].Status = tunnelStatusBlocked
        /\ store[c].Status \in {tunnelStatusFailed, tunnelStatusStarting}
               => store[c].Code = "" /\ store[c].Message # tunnelAuthRequiredMessage

\* The log has an auth prompt and, after it, a last non-empty line that is
\* neither a prompt nor a line with a device code.
PromptThenOther(lines) ==
    \E i, j \in DOMAIN lines :
        /\ i < j
        /\ lines[i].kind = "prompt"
        /\ lines[j].kind = "plain"
        /\ \A k \in (j + 1)..Len(lines) : lines[k] = BlankLine

\* C26: whatever the PID check and the token file say, the Health probed
\* from a log whose auth prompt is followed by a last non-empty line that
\* is no prompt and has no device code has authRequired false and no code,
\* the status derived from it is not blocked, and it is starting when the
\* process is alive and no token is present; and two logs with the same
\* last non-empty line give the same Health.
C26_LatestLineDecidesAuth ==
    \A pid \in {"alive", "dead"}, token \in BOOLEAN :
        LET health == checkTunnelHealth(VolumeHostPath, ProbeOf(pid, token, sessionLog))
        IN /\ PromptThenOther(sessionLog)
                 => /\ ~health.authRequired
                    /\ health.deviceCode = ""
                    /\ evaluateHealth(health) # tunnelStatusBlocked
                    /\ (pid = "alive" /\ ~token)
                           => evaluateHealth(health) = tunnelStatusStarting
           /\ \A line \in SessionLines \ {BlankLine} :
                 (sessionLog # <<>> /\ sessionLog[Len(sessionLog)] = line)
                     => health = checkTunnelHealth(VolumeHostPath,
                                     [pid |-> pid, token |-> token, log |-> line])

\* The log holds the auth prompt, then another line, then an empty line.
C26_Witness ==
    /\ sessionLog = <<[kind |-> "prompt", code |-> "ABCD-EFGH"],
                      [kind |-> "plain", code |-> ""], BlankLine>>
    /\ PromptThenOther(sessionLog)
    /\ evaluateHealth(checkTunnelHealth(VolumeHostPath, ProbeOf("alive", FALSE, sessionLog)))
           = tunnelStatusStarting

\* A well-formed entry of a user other than root.
NonRootEntry(line) ==
    /\ line.kind = "entry"
    /\ line.fields >= 7
    /\ line.name \notin {"", "root"}
    /\ line.uid.numeric

RegularEntry(line) ==
    /\ NonRootEntry(line)
    /\ line.uid.value >= 1000
    /\ Len(line.home) >= 3
    /\ <<line.home[1], line.home[2], line.home[3]>> = <<"/", "home", "/">>

FirstLine(lines, Wanted(_)) ==
    lines[CHOOSE i \in DOMAIN lines :
              Wanted(lines[i]) /\ \A j \in 1..(i - 1) : ~Wanted(lines[j])]

\* C27: over the lines of /etc/passwd, selectFirstNonRootUser returns the
\* first well-formed entry, in file order, of a user other than root with a
\* numeric UID of 1000 or more and a home under /home/; without such an
\* entry, the first well-formed entry of a user other than root; without
\* any, that no user was found.
C27_FirstRegularElseFirstNonRoot ==
    LET user == selectFirstNonRootUser(passwd)
    IN IF \E i \in DOMAIN passwd : RegularEntry(passwd[i])
       THEN /\ user.ok
            /\ user.name = FirstLine(passwd, RegularEntry).name
            /\ user.home = FirstLine(passwd, RegularEntry).home
       ELSE IF \E i \in DOMAIN passwd : NonRootEntry(passwd[i])
       THEN /\ user.ok
            /\ user.name = FirstLine(passwd, NonRootEntry).name
       ELSE ~user.ok

\* root, then a system user, then a regular user: the regular user is
\* returned although the system user comes first.
C27_Witness ==
    /\ passwd = <<PasswdEntry("root", Number(0), <<"/", "root">>),
                  PasswdEntry("daemon", Number(1), <<"/", "usr", "/", "sbin">>),
                  PasswdEntry("ubuntu", Number(1000), <<"/", "home", "/", "ubuntu">>)>>
    /\ selectFirstNonRootUser(passwd).name = "ubuntu"
    /\ selectFirstNonRootUser(SubSeq(passwd, 1, 2)).name = "daemon"
    /\ ~selectFirstNonRootUser(SubSeq(passwd, 1, 1)).ok

\* ------------------------------------------- one monitor, passes compared
\* The monitor of SpecTimed, with each pass leaving behind what it saw.
NextObserved ==
    \/ \E w \in Workers, gap \in TickGaps : Tick(w, gap)
    \/ \E w \in Workers, probe \in AllProbes : ApplyObserved(w, probe)
    \/ \E w \in Workers : ExitOnStop(w)
    \/ \E c \in Containers : StopMonitor(c)

SpecObserved == InitTimed /\ [][NextObserved]_vars

\* The Health of this pass differs from the previous pass's in authRequired
\* or in tokenPresent.
Flips(w, health) ==
    /\ observed[w].seen
    /\ \/ observed[w].authRequired # health.authRequired
       \/ observed[w].tokenPresent # health.tokenPresent

\* C28: every pass of the monitor whose derived status differs from the
\* monitor's status calls setTunnelState, and so does every pass whose Health
\* flips authRequired or tokenPresent against the previous pass, the status
\* being the same or not.
C28_WriteOnChangeOrFlip ==
    [][\A w \in Workers, probe \in AllProbes :
          ApplyObserved(w, probe) =>
            LET health == HealthOf(w, probe)
                out    == tunnelMonitorRun(workers[w], health)
            IN (evaluateHealth(health) # workers[w].state \/ Flips(w, health))
                   => Len(out.writes) > 0]_vars

\* C29: a pass moves lastProgress to the time of the pass exactly when the
\* derived status changes or the Health flips authRequired or tokenPresent;
\* every other pass leaves lastProgress where it was.
C29_ProgressIffChangeOrFlip ==
    [][\A w \in Workers, probe \in AllProbes :
          (ApplyObserved(w, probe) /\ workers'[w].pc = "select") =>
            LET health   == HealthOf(w, probe)
                advances == evaluateHealth(health) # workers[w].state \/ Flips(w, health)
            IN /\ advances => workers'[w].lastProgress = 0
               /\ ~advances => workers'[w].lastProgress = workers[w].lastProgress]_vars

\* The commands of bootstrapTunnel in the order of its code.
BootstrapSteps == <<"resolveUser", "prepareLog", "install", "start">>

HasPrefixText(text, prefix) ==
    Len(prefix) <= Len(text) /\ SubSeq(text, 1, Len(prefix)) = prefix

RanStep(run, step) == \E i \in DOMAIN run.ran : run.ran[i] = step

\* C30: bootstrapTunnel runs its commands in order and stops at the first
\* one that fails. When the install script fails the start command is not
\* run, the container has no tunnel process, and the state is failed with a
\* message that begins with "Failed to install VS Code CLI"; when the start
\* command fails the state is failed; the status is starting only when both
\* succeeded; no returned state has an empty status.
C30_BootstrapStopsAtFirstFailure ==
    [][\A c \in Containers, env \in BootstrapEnvs :
          createWorkspace(c, env) =>
            LET run      == bootstrapTunnelRun(c, env)
                returned == run.state
            IN /\ run.ran = SubSeq(BootstrapSteps, 1, Len(run.ran))
               /\ (env.hasUser /\ ~env.installOk) =>
                      /\ ~RanStep(run, "start")
                      /\ podman'[c] = "bare"
                      /\ returned.Status = tunnelStatusFailed
                      /\ HasPrefixText(returned.Message, "Failed to install VS Code CLI")
                      /\ store'[c] = returned
               /\ (env.hasUser /\ env.installOk /\ ~env.startOk) =>
                      /\ run.ran = BootstrapSteps
                      /\ returned.Status = tunnelStatusFailed
               /\ returned.Status = tunnelStatusStarting
                      <=> (env.hasUser /\ env.installOk /\ env.startOk)
               /\ returned.Status = tunnelStatusStarting => podman'[c] = "tunnel"
               /\ returned.Status # ""]_vars

\* A workspace whose install script failed: the message of the failure is
\* stored and no tunnel process runs in the container.
C30_Witness ==
    \E c \in Containers :
        /\ podman[c] = "bare"
        /\ c \in DOMAIN store
        /\ store[c].Status = tunnelStatusFailed
        /\ store[c].Message = "Failed to install VS Code CLI: sh: 1: curl: not found"

\* ------------------------------------------------- the Store under pruning
\* The ids of a container listing: full ids, a short id, an id with blanks
\* around it and an empty one.
ListedIDs == {"", " c1 ", "c1", "c1f0", "d2"}

Prune(listed) ==
    /\ store' = pruneTunnelStateMap(store, listed)
    /\ UNCHANGED <<podman, monitors, workers, history, ctx, hubVars, lockVars, fileVars, observed, reconciler>>

NextPrune ==
    \/ \E id \in StoreIDs, state \in StoreStates : Set(id, state)
    \/ \E listed \in SUBSET ListedIDs : Prune(listed)

SpecPrune == Init /\ [][NextPrune]_vars

\* C31: on every store and for every listing, pruneTunnelStateMap deletes
\* exactly the keys that stand for no listed id, neither the same id nor a
\* short or a long form of one; the keys it keeps have their values; with
\* nothing listed the store is emptied.
C31_PruneDeletesUnlisted ==
    \A listed \in SUBSET ListedIDs :
        LET after == pruneTunnelStateMap(store, listed)
        IN /\ DOMAIN after = {k \in DOMAIN store : \E id \in listed : Matches(k, id)}
           /\ \A k \in DOMAIN after : after[k] = store[k]
           /\ listed = {} => DOMAIN after = {}

\* The store holds a short id, two long ids that start with it and an
\* unrelated id: a listing of one long id keeps it and the short id, and an
\* empty listing keeps nothing.
C31_Witness ==
    /\ DOMAIN store = {"c1", "c1f0", "c1f9", "d2"}
    /\ DOMAIN pruneTunnelStateMap(store, {"c1f0"}) = {"c1", "c1f0"}
    /\ DOMAIN pruneTunnelStateMap(store, {" c1 ", ""}) = {"c1", "c1f0", "c1f9"}
    /\ DOMAIN pruneTunnelStateMap(store, {}) = {}

\* ------------------------------------------------- the evaluator before the monitor
\* Lines of the log by what the evaluator's text tests see in them: the auth
\* prompt, a line with a code keyword and a device code, a line with
\* "authentication required", one with "failed to", one with "connected to
\* tunnel", any other line, an empty line.
LegacyLines ==
    {[kind |-> "prompt", code |-> "ABCD-EFGH"], [kind |-> "prompt", code |-> "AB12"],
     [kind |-> "codeword", code |-> "ABCD-EFGH"], [kind |-> "auth", code |-> ""],
     [kind |-> "failure", code |-> ""], [kind |-> "ready", code |-> ""],
     [kind |-> "plain", code |-> ""], BlankLine}

\* The error of readTunnelLog.
LogErrs == {"nil", "unavailable", "notfound", "other"}

isLatestTunnelLogLineAuthPrompt(lines) ==
    LET line == latestNonEmptyLine(lines)
    IN IF line = BlankLine THEN FALSE ELSE authPromptLinePattern(line)

\* The prompt names github.com/login/device.
containsTunnelAuthRequired(line) == line.kind \in {"auth", "prompt"}

containsTunnelFailure(line) == line.kind = "failure"

containsTunnelReadyLine(line) == line.kind = "ready"

\* strings.Contains over the whole log
containsTunnelReady(lines) == \E i \in DOMAIN lines : containsTunnelReadyLine(lines[i])

NoState == [ok |-> FALSE, state |-> TunnelState("", "", "", "nil")]

deriveTunnelStateFromLine(line) ==
    IF line = BlankLine THEN NoState
    ELSE IF extractDeviceCode(line) # ""
    THEN [ok |-> TRUE,
          state |-> TunnelState(tunnelStatusBlocked, extractDeviceCode(line),
                                tunnelAuthRequiredMessage, "nil")]
    ELSE IF containsTunnelAuthRequired(line)
    THEN [ok |-> TRUE,
          state |-> TunnelState(tunnelStatusBlocked, "", tunnelAuthRequiredMessage, "nil")]
    ELSE IF containsTunnelFailure(line)
    THEN [ok |-> TRUE,
          state |-> TunnelState(tunnelStatusFailed, "", "Tunnel failed to start.", "nil")]
    ELSE IF containsTunnelReadyLine(line)
    THEN [ok |-> TRUE, state |-> TunnelState(tunnelStatusReady, "", "", "nil")]
    ELSE NoState

deriveTunnelStateFromLog(lines) == deriveTunnelStateFromLine(latestNonEmptyLine(lines))

evaluateTunnelState(lines, tokenPresent, logErr, tunnelRunning) ==
    LET derived == deriveTunnelStateFromLog(lines)
    IN IF isLatestTunnelLogLineAuthPrompt(lines)
       THEN [state |-> TunnelState(tunnelStatusBlocked,
                                   extractDeviceCode(latestNonEmptyLine(lines)),
                                   tunnelAuthRequiredMessage, "nil"),
             terminal |-> TRUE]
       ELSE IF tunnelRunning
       THEN [state |-> TunnelState(tunnelStatusReady, "", "", "nil"), terminal |-> TRUE]
       ELSE IF derived.ok /\ derived.state.Status \in {tunnelStatusBlocked, tunnelStatusFailed}
       THEN [state |-> derived.state, terminal |-> TRUE]
       ELSE IF tokenPresent /\ containsTunnelReady(lines)
       THEN [state |-> TunnelState(tunnelStatusReady, "", "", "nil"), terminal |-> TRUE]
       ELSE IF logErr = "unavailable"
       THEN [state |-> TunnelState(tunnelStatusFailed, "",
                                   "Podman unavailable while checking tunnel.", "nil"),
             terminal |-> TRUE]
       ELSE IF logErr = "notfound"
       THEN [state |-> TunnelState(tunnelStatusFailed, "",
                                   "Container not found while checking tunnel.", "nil"),
             terminal |-> TRUE]
       ELSE [state |-> TunnelState(tunnelStatusStarting, "", "", "nil"), terminal |-> FALSE]

\* The tunnel process appends a line to the log the evaluator reads.
WriteLegacyLine(line) ==
    /\ Len(sessionLog) < MaxLogLines
    /\ sessionLog' = Append(sessionLog, line)
    /\ UNCHANGED <<tunnelVars, hubVars, lockVars, passwd, observed, reconciler>>

NextLegacy == \E line \in LegacyLines : WriteLegacyLine(line)

SpecLegacy == Init /\ [][NextLegacy]_vars

C33_ReadyIsStable ==
    [][\A w \in Workers, probe \in AllProbes :
          LET c      == workers[w].containerID
              health == HealthOf(w, probe)
          IN (/\ Apply(w, probe)
              /\ workers[w].state = tunnelStatusReady
              /\ c \in DOMAIN store
              /\ store[c].Status = tunnelStatusReady
              /\ health.processAlive
              /\ health.tokenPresent)
                 => /\ c \in DOMAIN store'
                    /\ store'[c].Status = tunnelStatusReady
                    /\ history'[w].timeoutWrites = history[w].timeoutWrites]_vars

\* C34: after every pass of a monitor over a container that has a Store
\* entry, the stored status is the status derived from the Health of that
\* pass, the pass that ends in the progress timeout aside; this also for a
\* monitor that reconcileTunnelSessions started over the entry it stored.
C34_StoreFollowsTick ==
    [][\A w \in Workers, probe \in AllProbes :
          LET c      == workers[w].containerID
              health == HealthOf(w, probe)
              out    == tunnelMonitorRun(workers[w], health)
          IN (Apply(w, probe) /\ c \in DOMAIN store /\ ~out.timedOut)
                 => /\ c \in DOMAIN store'
                    /\ store'[c].Status = evaluateHealth(health)]_vars

\* C35: while a monitor runs for a container whose Store status is blocked,
\* the stored code is the device code of the latest pass: a pass of a blocked
\* monitor that finds a prompt with a device code and leaves the container
\* blocked leaves that code in the Store.
C35_BlockedCodeIsCurrent ==
    [][\A w \in Workers, probe \in AllProbes :
          LET c      == workers[w].containerID
              health == HealthOf(w, probe)
          IN (/\ Apply(w, probe)
              /\ workers[w].state = tunnelStatusBlocked
              /\ c \in DOMAIN store
              /\ store[c].Status = tunnelStatusBlocked
              /\ health.deviceCode # ""
              /\ workers'[w].pc = "select"
              /\ c \in DOMAIN store'
              /\ store'[c].Status = tunnelStatusBlocked)
                 => store'[c].Code = health.deviceCode]_vars

\* C36: the monitor that reconcileTunnelSessions starts for a container that
\* createWorkspace made watches the host directory that createWorkspace
\* mounted as the container's .vscode volume and gave to its own monitor.
C36_ReconcileWatchesVolume ==
    [][\A c \in Containers, probe \in AllProbes :
          (/\ reconcileTunnelSessions(c, probe)
           /\ podman[c] = "tunnel"
           /\ checkTunnelHealth(NoDir, probe).processAlive)
              => /\ c \in DOMAIN monitors'
                 /\ workers'[monitors'[c]].hostVSCodeDir = VolumeHostPath]_vars

\* ------------------------------------------ reconcile, statement by statement
\* One iteration of the loop of reconcileTunnelSessions up to and including
\* startTunnelMonitor: the goroutine of the new monitor runs from here on,
\* and the state built from the probe is still to be stored.
reconcileStartMonitor(c, probe) ==
    LET health == checkTunnelHealth(NoDir, probe)
    IN /\ ~reconciler[c].pending
       /\ podman[c] \in {"bare", "tunnel", "foreign"}
       /\ probe \in ProbeResults(podman[c])
       /\ IF reconcileSkips(SessionLabel(c), c)
          THEN UNCHANGED <<store, monitors, workers, history, reconciler>>
          ELSE IF health.processAlive
          THEN /\ startTunnelMonitor(c, SessionOf(c),
                      deriveHostVSCodeDirFromContainer(WorkspaceHomeOf(c)))
               /\ reconciler' = [reconciler EXCEPT
                                    ![c] = [pending |-> TRUE, state |-> reconcileState(health)]]
               /\ UNCHANGED store
          ELSE /\ store' = setTunnelState(store, c, NotRunningState)
               /\ UNCHANGED <<monitors, workers, history, reconciler>>
       /\ UNCHANGED <<podman, ctx, hubVars, lockVars, fileVars, observed>>

\* The rest of the iteration: s.setTunnelState(containerID, state).
reconcileSetState(c) ==
    /\ reconciler[c].pending
    /\ store' = setTunnelState(store, c, reconciler[c].state)
    /\ reconciler' = [reconciler EXCEPT ![c] = NothingPending]
    /\ UNCHANGED <<podman, monitors, workers, history, ctx, hubVars, lockVars, fileVars,
                   observed>>

NextReconcile ==
    \/ \E c \in Containers, env \in BootstrapEnvs : createWorkspace(c, env)
    \/ \E c \in Containers, probe \in AllProbes : reconcileStartMonitor(c, probe)
    \/ \E c \in Containers : reconcileSetState(c)
    \/ \E w \in Workers : Tick(w, StallGap)
    \/ \E w \in Workers, probe \in AllProbes : Apply(w, probe)

SpecReconcile == Init /\ [][NextReconcile]_vars

\* C37: the write reconcileTunnelSessions makes for a container comes before
\* every write of the monitor it started for the container: when it stores
\* its state, that monitor has not stored failed, so that no failed entry of
\* the monitor is replaced by starting or blocked.
C37_ReconcileWritesFirst ==
    [][\A c \in Containers :
          (reconcileSetState(c) /\ c \in DOMAIN monitors /\ c \in DOMAIN store)
              => ~(/\ workers[monitors[c]].state = tunnelStatusFailed
                   /\ store[c].Status = tunnelStatusFailed
                   /\ store'[c].Status \in {tunnelStatusStarting, tunnelStatusBlocked})]_vars

\* ---------------------------------------------- long and short container ids
\* A container known by its full id, with the monitor and the Store entry
\* that createWorkspace made for it; callers name it by any id of StoreIDs.
FullID == "c1f0"

InitIDs ==
    /\ podman = [c \in {FullID} |-> "tunnel"]
    /\ store = [c \in {FullID} |->
                   bootstrapTunnel(FullID, [hasUser |-> TRUE, installOk |-> TRUE,
                                            startOk |-> TRUE])]
    /\ monitors = [c \in {FullID} |-> 1]
    /\ workers = [w \in Workers |->
                     IF w = 1 THEN NewMonitor(FullID, SessionOf(FullID), VolumeHostPath)
                     ELSE IdleWorker]
    /\ history = [w \in Workers |-> NoHistory]
    /\ ctx = "live"
    /\ HubAtStart
    /\ LockAtStart
    /\ sessionLog = <<>>
    /\ passwd = <<>>
    /\ observed = [w \in Workers |-> NotObserved]
    /\ reconciler = [c \in Containers |-> NothingPending]

NextIDs ==
    \/ \E w \in Workers, gap \in TickGaps : Tick(w, gap)
    \/ \E w \in Workers, probe \in AllProbes : Apply(w, probe)
    \/ \E w \in Workers : ExitOnStop(w)
    \/ \E id \in StoreIDs : StopMonitor(id)
    \/ \E id \in StoreIDs : Clear(id)

SpecIDs == InitIDs /\ [][NextIDs]_vars

\* C38: stopTunnelMonitor and clearTunnelState take an id for the same
\* container: for every id and every container that has a monitor and a
\* Store entry, if clearTunnelState(id) removes the entry then
\* stopTunnelMonitor(id) takes the container's monitor out of the registry.
C38_StopAndClearAgree ==
    \A id \in StoreIDs, k \in DOMAIN monitors :
        (k \in DOMAIN store /\ k \notin DOMAIN clearTunnelState(store, id))
            => ENABLED (StopMonitor(id) /\ k \notin DOMAIN monitors')

\* ------------------------------------------------------------- discovery
\* discoverTunnelStateFromContainer over the results of its two runtime
\* calls: the PID check and the read of the session log (its latest
\* non-empty line, or the error of the exec).
discoverTunnelStateFromContainer(pid, log) ==
    LET processAlive == pid = "alive"
    IN IF log = LogError
       THEN IF ~processAlive
            THEN [state |-> NotRunningState, ok |-> TRUE]
            ELSE [state |-> TunnelState(tunnelStatusStarting, "", "", "nil"), ok |-> FALSE]
       ELSE IF authPromptLinePattern(log)
       THEN [state |-> TunnelState(tunnelStatusBlocked, extractDeviceCode(log),
                                   tunnelAuthRequiredMessage, "nil"),
             ok |-> TRUE]
       ELSE IF ~processAlive
       THEN [state |-> NotRunningState, ok |-> TRUE]
       ELSE IF extractDeviceCode(log) # ""
       THEN [state |-> TunnelState(tunnelStatusBlocked, extractDeviceCode(log),
                                   tunnelAuthRequiredMessage, "nil"),
             ok |-> FALSE]
       ELSE [state |-> TunnelState(tunnelStatusStarting, "", "", "nil"), ok |-> FALSE]

\* What the PID check can give.
PidResults == {"alive", "dead", "notfound", "unavailable", "transient"}

\* C39: whenever the PID check does not report a live tunnel process,
\* discoverTunnelStateFromContainer returns failed with the message of a
\* process that is not running, whatever the session log holds and whether
\* or not it can be read, as the monitor derives failed from such a probe.
C39_DiscoveryFailsDeadProcess ==
    \A pid \in PidResults \ {"alive"}, token \in BOOLEAN,
       log \in {latestNonEmptyLine(sessionLog), LogError} :
        LET found == discoverTunnelStateFromContainer(pid, log)
            probe == [pid |-> pid, token |-> token, log |-> log]
        IN /\ evaluateHealth(checkTunnelHealth(VolumeHostPath, probe)) = tunnelStatusFailed
           /\ found.state = NotRunningState

\* C40: the registry holds a monitor for a container only while the
\* monitor's goroutine runs: no entry of s.monitors is a monitor whose run
\* has returned.
C40_RegistryHoldsRunning ==
    \A c \in DOMAIN monitors : workers[monitors[c]].pc # "exited"


====
